---- MODULE Spec2Model ----
(***************************************************************************)
(* A model of the vscode-iwyu incremental diagnostic engine: the Analyzer  *)
(* class (run scheduling, report parsing, publishing), the Logger spinner  *)
(* and the event handlers registered by activate().                        *)
(***************************************************************************)
EXTENDS Integers, Sequences, FiniteSets, TLC

----------------------------------------------------------------------------
(* Bounds of the model.                                                    *)

\* Command Runner invocations (exec calls) in flight at the same time.
MaxRuns == 2
\* Timer handles a document can tell apart at the same time.
MaxTimers == 2
\* Length of the editor list handed to onDidChangeVisibleTextEditors.
MaxEditors == 2
\* diagnostic collections created over the life of the process
MaxSurfaces == 2
\* lines of a report given to the parser on its own
MaxLines == 3
\* diagnostics in the context of one provideCodeActions call
MaxDiagnostics == 2

----------------------------------------------------------------------------
(* Characters and small text helpers.  A text is a sequence of one-        *)
(* character strings.                                                      *)

NL == "\n"

Digits == {"0", "1", "2", "3", "4", "5", "6", "7", "8", "9"}
HexLetters == {"A", "B", "C", "D", "E", "F", "a", "b", "c", "d", "e", "f"}
Letters ==
  {"A", "B", "C", "D", "E", "F", "G", "H", "I", "J", "K", "L", "M", "N", "O",
   "P", "Q", "R", "S", "T", "U", "V", "W", "X", "Y", "Z",
   "a", "b", "c", "d", "e", "f", "g", "h", "i", "j", "k", "l", "m", "n", "o",
   "p", "q", "r", "s", "t", "u", "v", "w", "x", "y", "z"}
IntSuffix == {"U", "L", "u", "l"}

\* s.substring(offset), offset counted from 0
substring(s, offset) ==
  IF offset >= Len(s) THEN <<>> ELSE SubSeq(s, offset + 1, Len(s))

\* Length of the longest prefix of s made of characters of class C.
RECURSIVE Span(_, _)
Span(s, C) ==
  IF s = <<>> \/ Head(s) \notin C THEN 0 ELSE 1 + Span(Tail(s), C)

\* Index (from 1) of the first occurrence of c in s at or after i; 0 if none.
RECURSIVE IndexFrom(_, _, _)
IndexFrom(s, c, i) ==
  IF i > Len(s) THEN 0
  ELSE IF s[i] = c THEN i
  ELSE IndexFrom(s, c, i + 1)

----------------------------------------------------------------------------
(* TOKEN_PATTERNS: each operator gives the length of the match of one      *)
(* pattern anchored at the start of s, or -1 when it does not match.       *)

NoMatch == -1

\* /^[0-9]*\.[0-9]+/
MatchFloat(s) ==
  LET n == Span(s, Digits)
      rest == substring(s, n)
  IN  IF rest # <<>> /\ Head(rest) = "." /\ Span(Tail(rest), Digits) >= 1
      THEN n + 1 + Span(Tail(rest), Digits)
      ELSE NoMatch

\* /^0[Xx] body+ [ULul]*/ with body the digit class of the radix
MatchRadix(s, marks, body) ==
  IF Len(s) >= 3 /\ s[1] = "0" /\ s[2] \in marks /\ Span(substring(s, 2), body) >= 1
  THEN LET n == Span(substring(s, 2), body)
       IN  2 + n + Span(substring(s, 2 + n), IntSuffix)
  ELSE NoMatch

\* /^0[Xx][0-9A-Fa-f]+[ULul]*/
MatchHex(s) == MatchRadix(s, {"X", "x"}, Digits \cup HexLetters)

\* /^0[Bb][01]+[ULul]*/
MatchBinary(s) == MatchRadix(s, {"B", "b"}, {"0", "1"})

\* /^[0-9]+[ULul]*/
MatchInteger(s) ==
  LET n == Span(s, Digits)
  IN  IF n >= 1 THEN n + Span(substring(s, n), IntSuffix) ELSE NoMatch

\* /^q(?:[^q])*q/ for a quote character q: up to the first closing quote.
\* In /^"(?:[^"]|\\")*"/ the first alternative consumes every character
\* but the quote, so the match also ends at the first closing quote.
MatchQuoted(s, q) ==
  IF s # <<>> /\ Head(s) = q /\ IndexFrom(s, q, 2) # 0
  THEN IndexFrom(s, q, 2)
  ELSE NoMatch

\* /^'(?:[^'])*'/
MatchChar(s) == MatchQuoted(s, "'")

\* /^"(?:[^"]|\\")*"/
MatchString(s) == MatchQuoted(s, "\"")

\* /^[Rr]"[A-Za-z]*\(.*\)[A-Za-z]*"/ : .* is greedy and does not cross a
\* newline, so the match ends at the last workable closing parenthesis.
MatchRawString(s) ==
  IF Len(s) >= 2 /\ s[1] \in {"R", "r"} /\ s[2] = "\""
  THEN LET d == Span(substring(s, 2), Letters)
           open == 3 + d
           lineEnd == IF IndexFrom(s, NL, open) = 0 THEN Len(s) + 1
                      ELSE IndexFrom(s, NL, open)
           ends == {j \in (open + 1)..(lineEnd - 1) :
                      /\ s[j] = ")"
                      /\ LET e == Span(substring(s, j), Letters)
                         IN  j + e + 1 <= Len(s) /\ s[j + e + 1] = "\""}
       IN  IF open <= Len(s) /\ s[open] = "(" /\ ends # {}
           THEN LET j == CHOOSE x \in ends : \A y \in ends : y <= x
                IN  j + Span(substring(s, j), Letters) + 1
           ELSE NoMatch
  ELSE NoMatch

\* /^[A-Za-z_][A-Za-z0-9_]*/
MatchIdentifier(s) ==
  IF s # <<>> /\ Head(s) \in Letters \cup {"_"}
  THEN Span(s, Letters \cup Digits \cup {"_"})
  ELSE NoMatch

\* The patterns in the order of the array: the first that matches wins.
TOKEN_PATTERNS(s) ==
  << MatchFloat(s), MatchHex(s), MatchBinary(s), MatchInteger(s),
     MatchChar(s), MatchString(s), MatchRawString(s), MatchIdentifier(s) >>

----------------------------------------------------------------------------
(* The editor host: workspace folders, documents, positions.  A uri and a  *)
(* workspace-relative path are sequences of path segments.                 *)

WorkspaceFolders == { <<"w">> }
NoFolder == <<>>

DocA == <<"w", "a.cc">>
DocB == <<"w", "b.h">>
\* a document outside every workspace folder
DocOut == <<"elsewhere", "c.cc">>
Documents == {DocA, DocB, DocOut}

\* document.languageId
languageId(document) == "cpp"

supportedLanguages == {"cpp", "c"}

IsPrefix(p, s) == Len(p) <= Len(s) /\ SubSeq(s, 1, Len(p)) = p

\* vscode.workspace.getWorkspaceFolder(uri): the folder that holds uri.
getWorkspaceFolder(uri) ==
  IF \E f \in WorkspaceFolders : IsPrefix(f, uri) /\ Len(f) < Len(uri)
  THEN CHOOSE f \in WorkspaceFolders : IsPrefix(f, uri) /\ Len(f) < Len(uri)
  ELSE NoFolder

\* vscode.workspace.asRelativePath(uri, false)
asRelativePath(uri) ==
  LET f == getWorkspaceFolder(uri)
  IN  IF f = NoFolder THEN uri ELSE SubSeq(uri, Len(f) + 1, Len(uri))

\* Path normalisation of Uri.joinPath: "." is dropped, ".." climbs.
RECURSIVE Normalize(_, _)
Normalize(done, todo) ==
  IF todo = <<>> THEN done
  ELSE IF Head(todo) = "." THEN Normalize(done, Tail(todo))
  ELSE IF Head(todo) = ".."
       THEN Normalize(IF done = <<>> THEN <<>> ELSE SubSeq(done, 1, Len(done) - 1),
                      Tail(todo))
  ELSE Normalize(Append(done, Head(todo)), Tail(todo))

\* vscode.Uri.joinPath(root.uri, path).toString()
joinPath(root, path) == Normalize(root, path)

\* The document contents the editor can hold.
TextEmpty == <<>>
TextA == <<"x", "1", " ", "7", NL, "'", "c", "'">>
TextB == <<"0", "x", "F", "u">>
Texts == {TextEmpty, TextA, TextB}

\* Start offsets (from 0) of the lines of a text.
LineStarts(txt) == {0} \cup {i \in 1..Len(txt) : txt[i] = NL}
lineCount(txt) == Cardinality(LineStarts(txt))

\* Offset of the start of line number l (from 0) of a text.
LineStart(txt, l) ==
  CHOOSE o \in LineStarts(txt) :
    Cardinality({q \in LineStarts(txt) : q < o}) = l

\* Length of line number l, its terminator not counted.
LineLength(txt, l) ==
  LET o == LineStart(txt, l)
      e == IndexFrom(txt, NL, o + 1)
  IN  (IF e = 0 THEN Len(txt) ELSE e - 1) - o

Position(line, character) == [line |-> line, character |-> character]

\* new vscode.Position / new vscode.Range raise on a negative line or
\* character.
ValidPosition(position) == position.line >= 0 /\ position.character >= 0

Range(startLine, startCharacter, endLine, endCharacter) ==
  [start |-> Position(startLine, startCharacter),
   end |-> Position(endLine, endCharacter)]

\* TextDocument.offsetAt(position): the position is clamped into the text.
offsetAt(txt, position) ==
  IF position.line < 0 THEN 0
  ELSE IF position.line >= lineCount(txt) THEN Len(txt)
  ELSE LET max == LineLength(txt, position.line)
           c == IF position.character < 0 THEN 0
                ELSE IF position.character > max THEN max
                ELSE position.character
       IN  LineStart(txt, position.line) + c

\* Length of the first matching pattern, in the order of the array.
RECURSIVE FirstMatch(_)
FirstMatch(lens) ==
  IF lens = <<>> THEN NoMatch
  ELSE IF Head(lens) # NoMatch THEN Head(lens)
  ELSE FirstMatch(Tail(lens))

\* Analyzer._getTokenRange, on the text of the analyzer's own document.
_getTokenRange(txt, position) ==
  LET offset == offsetAt(txt, position)
      tail == substring(txt, offset)
      token == FirstMatch(TOKEN_PATTERNS(tail))
  IN  IF token # NoMatch
      THEN Range(position.line, position.character,
                 position.line, position.character + token)
      ELSE Range(position.line, position.character,
                 position.line, position.character + 1)

----------------------------------------------------------------------------
(* The report of the tool, as the lines of stdout.split('\n').  A line is   *)
(* given by the grammar it matches and the groups the match captures; the  *)
(* numerals are the values parseInt gives.                                 *)

ReportLine(kind, path, row, column, symbol, include, spaces, endRow) ==
  [kind |-> kind, path |-> path, row |-> row, column |-> column,
   symbol |-> symbol, include |-> include, spaces |-> spaces, endRow |-> endRow]

\* "(<path> has correct #includes/fwd-decls)"
CorrectLine(path) == ReportLine("correct", path, 0, 0, "", "", 0, 0)
\* "<path>:<row>:<column>: warning: <symbol> is defined in <include>, which
\* isn't directly #included."
AddLine(path, row, column, symbol, include) ==
  ReportLine("add", path, row, column, symbol, include, 0, 0)
\* "<path> should remove these lines:"
HeaderLine(path) == ReportLine("header", path, 0, 0, "", "", 0, 0)
\* "- #include<spaces><include>  // lines <row>-<endRow>"
RemoveLine(include, spaces, row, endRow) ==
  ReportLine("remove", <<>>, row, 0, "", include, spaces, endRow)
\* ""
BlankLine == ReportLine("blank", <<>>, 0, 0, "", "", 0, 0)
\* a line no grammar matches
OtherLine == ReportLine("other", <<>>, 0, 0, "", "", 0, 0)

Diagnostic(range, message, code) ==
  [range |-> range, message |-> message, severity |-> "Warning",
   source |-> "iwyu", code |-> code]

\* The result of a step of the parse: the accumulated DiagnosticsByUri (a
\* function on the uris it has keys for), whether the line matched, and
\* whether an exception was raised.
Parsed(diagnostics, matched, threw) ==
  [diagnostics |-> diagnostics, matched |-> matched, threw |-> threw]

\* diagnostics[uri] = list
Assign(diagnostics, uri, list) ==
  [u \in DOMAIN diagnostics \cup {uri} |->
     IF u = uri THEN list ELSE diagnostics[u]]

\* Analyzer._processCorrectFinding
_processCorrectFinding(root, diagnostics, line) ==
  IF line.kind = "correct"
  THEN Parsed(Assign(diagnostics, joinPath(root, line.path), <<>>), TRUE, FALSE)
  ELSE Parsed(diagnostics, FALSE, FALSE)

\* An add-finding whose numerals are taken as 0-based.
_processAddFindingAsIs(root, txt, diagnostics, line) ==
  IF line.kind # "add" THEN Parsed(diagnostics, FALSE, FALSE)
  ELSE LET lineNumber == line.row
           charNumber == line.column
           position == Position(lineNumber, charNumber)
           diagnostic ==
             Diagnostic(_getTokenRange(txt, position),
                        <<line.symbol, " is defined in ", line.include,
                          ", which isn't directly #included.">>,
                        "add")
           uri == joinPath(root, line.path)
       IN  IF ~ValidPosition(position) THEN Parsed(diagnostics, FALSE, TRUE)
           ELSE IF uri \in DOMAIN diagnostics
           THEN Parsed(Assign(diagnostics, uri, Append(diagnostics[uri], diagnostic)),
                       TRUE, FALSE)
           ELSE Parsed(Assign(diagnostics, uri, <<diagnostic>>), TRUE, FALSE)

\* Analyzer._processAddFinding
_processAddFinding(root, txt, diagnostics, line) ==
  IF line.kind # "add" THEN Parsed(diagnostics, FALSE, FALSE)
  ELSE LET lineNumber == line.row - 1
           charNumber == line.column - 1
           position == Position(lineNumber, charNumber)
           diagnostic ==
             Diagnostic(_getTokenRange(txt, position),
                        <<line.symbol, " is defined in ", line.include,
                          ", which isn't directly #included.">>,
                        "add")
           uri == joinPath(root, line.path)
       IN  IF ~ValidPosition(position) THEN Parsed(diagnostics, FALSE, TRUE)
           ELSE IF uri \in DOMAIN diagnostics
           THEN Parsed(Assign(diagnostics, uri, Append(diagnostics[uri], diagnostic)),
                       TRUE, FALSE)
           ELSE Parsed(Assign(diagnostics, uri, <<diagnostic>>), TRUE, FALSE)

\* A removal entry whose range runs to the end line of the entry.
_processRemoveFindingToEnd(diagnostics, uri, line) ==
  IF line.kind # "remove" THEN Parsed(diagnostics, FALSE, FALSE)
  ELSE LET lineNumber == line.row - 1
           includeLength == Len("#include") + line.spaces + Len(line.include)
           diagnostic ==
             Diagnostic(Range(lineNumber, 0, line.endRow - 1, includeLength),
                        <<"Unused #include ", line.include, ".">>,
                        "remove")
       IN  IF lineNumber < 0 THEN Parsed(diagnostics, FALSE, TRUE)
           ELSE Parsed(Assign(diagnostics, uri, Append(diagnostics[uri], diagnostic)),
                       TRUE, FALSE)

\* Analyzer._processRemoveFinding, on the list diagnostics[uri]
_processRemoveFinding(diagnostics, uri, line) ==
  IF line.kind # "remove" THEN Parsed(diagnostics, FALSE, FALSE)
  ELSE LET lineNumber == line.row - 1
           includeLength == Len("#include") + line.spaces + Len(line.include)
           diagnostic ==
             Diagnostic(Range(lineNumber, 0, lineNumber, includeLength),
                        <<"Unused #include ", line.include, ".">>,
                        "remove")
       IN  IF lineNumber < 0 THEN Parsed(diagnostics, FALSE, TRUE)
           ELSE Parsed(Assign(diagnostics, uri, Append(diagnostics[uri], diagnostic)),
                       TRUE, FALSE)

\* An inner loop that gives up the block after one line: the outer loop
\* scans the rest of the block with all the grammars.
RemovalBlockOfOneLine(lines, i, diagnostics, uri) ==
  IF i > Len(lines) \/ lines[i].kind = "blank"
  THEN [parsed |-> Parsed(diagnostics, TRUE, FALSE), at |-> i]
  ELSE [parsed |-> _processRemoveFinding(diagnostics, uri, lines[i]), at |-> i]

\* The inner loop of Analyzer._runInternal over a removal block: from line
\* i (from 1) up to the first empty line or the end.  Gives the parse
\* result and the index the loop stopped at.
RECURSIVE RemovalBlock(_, _, _, _)
RemovalBlock(lines, i, diagnostics, uri) ==
  IF i > Len(lines) \/ lines[i].kind = "blank"
  THEN [parsed |-> Parsed(diagnostics, TRUE, FALSE), at |-> i]
  ELSE LET r == _processRemoveFinding(diagnostics, uri, lines[i])
       IN  IF r.threw THEN [parsed |-> r, at |-> i]
           ELSE RemovalBlock(lines, i + 1, r.diagnostics, uri)

\* The outer loop of Analyzer._runInternal, from line i (from 1).
RECURSIVE ParseLines(_, _, _, _, _)
ParseLines(root, txt, lines, i, diagnostics) ==
  IF i > Len(lines) THEN Parsed(diagnostics, TRUE, FALSE)
  ELSE
    LET line == lines[i]
        c == _processCorrectFinding(root, diagnostics, line)
        a == _processAddFinding(root, txt, diagnostics, line)
        uri == joinPath(root, line.path)
        opened == IF uri \in DOMAIN diagnostics THEN diagnostics
                  ELSE Assign(diagnostics, uri, <<>>)
        block == RemovalBlock(lines, i + 1, opened, uri)
    IN  IF c.matched THEN ParseLines(root, txt, lines, i + 1, c.diagnostics)
        ELSE IF a.threw THEN a
        ELSE IF a.matched THEN ParseLines(root, txt, lines, i + 1, a.diagnostics)
        ELSE IF line.kind # "header"
        THEN ParseLines(root, txt, lines, i + 1, diagnostics)
        ELSE IF block.parsed.threw THEN block.parsed
        ELSE ParseLines(root, txt, lines, block.at + 1, block.parsed.diagnostics)

NoDiagnostics == [u \in {} |-> <<>>]

\* The parse of a whole report by the analyzer with this root and text.
ParseReport(root, txt, lines) == ParseLines(root, txt, lines, 1, NoDiagnostics)

\* A publish loop that sets only the uris that have no entry yet.
PublishKeepFirst(coll, diagnostics) ==
  LET set == {u \in DOMAIN diagnostics : Len(diagnostics[u]) > 0} \ DOMAIN coll
  IN  [u \in DOMAIN coll \cup set |->
         IF u \in set THEN diagnostics[u] ELSE coll[u]]

\* A publish loop that clears the collection before it sets the entries.
PublishCleared(coll, diagnostics) ==
  LET set == {u \in DOMAIN diagnostics : Len(diagnostics[u]) > 0}
  IN  [u \in set |-> diagnostics[u]]

\* A publish loop that sets the non-empty lists and skips the empty ones.
PublishNoDelete(coll, diagnostics) ==
  LET set == {u \in DOMAIN diagnostics : Len(diagnostics[u]) > 0}
  IN  [u \in DOMAIN coll \cup set |->
         IF u \in set THEN diagnostics[u] ELSE coll[u]]

\* The publish loop of Analyzer._runInternal on a DiagnosticCollection
\* (a function on the uris it holds an entry for): set for a non-empty
\* list, delete for an empty one.
Publish(coll, diagnostics) ==
  LET set == {u \in DOMAIN diagnostics : Len(diagnostics[u]) > 0}
      deleted == {u \in DOMAIN diagnostics : Len(diagnostics[u]) = 0}
  IN  [u \in (DOMAIN coll \ deleted) \cup set |->
         IF u \in set THEN diagnostics[u] ELSE coll[u]]

----------------------------------------------------------------------------
(* The state.                                                              *)

VARIABLES
  text,           \* document.getText() of every document (editor host)
  _analyzers,     \* Analyzer._analyzers: the uris that have an Analyzer
  _lastRevision,  \* Analyzer._lastRevision of every analyzer
  _timeout,       \* Analyzer._timeout: handle of the last timer set, 0 for null
  timers,         \* the armed (set, not fired, not cleared) timers
  abandoned,      \* per document: a runIn call awaits the promise of a
                  \* _debounce whose timer was cleared before it fired
  running,        \* the exec calls in flight, one per pipeline run, in the
                  \* order they were started
  _spinCount,     \* Logger._spinCount
  statusText,     \* Logger._status.text
  collection,     \* the entries of the DiagnosticCollection, by uri
  _diagnostics,   \* Analyzer._diagnostics: 0 for null, else the number of the
                  \* collection it refers to
  created,        \* the collections created so far
  active,         \* the extension is activated: its handlers are registered
  codeActions,    \* what the last provideCodeActions call returned
  \* history variables: they record what happened and decide nothing
  overtaken,      \* per run in flight: the uris a run started after it
                  \* has published for
  seen,           \* per document: text seen by the last call that proceeded
  solo,           \* per document: the single undisturbed run in flight
  base,           \* per document: analyzed content the fingerprint stood at
  superseded,     \* per document: an immediate run began while its timer
                  \* was pending
  burstDiff,      \* per document: a runIn since the last firing saw a change
  last            \* the last operation and what it observed

progVars == <<_analyzers, _lastRevision, _timeout, timers, abandoned, running,
              _spinCount, statusText, collection>>
histVars == <<overtaken, seen, solo, base, superseded, burstDiff, last>>
hostVars == <<_diagnostics, created, active, codeActions>>
vars == <<text, progVars, hostVars, histVars>>

\* No call of provideCodeActions yet.
NoCall == [context |-> <<>>, threw |-> FALSE, actions |-> <<>>]

\* "no text": the value of a history variable that has recorded no text
NoText == <<"<none>">>

StatusIdle == "$(tools) IWYU"
StatusSpinning == "$(loading~spin) IWYU"

\* seconds of the debounce of onDidSaveTextDocument
DebounceSeconds == 5

\* The scheduler state as one value, so that a handler which makes several
\* calls can thread it through them.
Sched ==
  [_analyzers |-> _analyzers, _lastRevision |-> _lastRevision,
   _timeout |-> _timeout, timers |-> timers, abandoned |-> abandoned,
   running |-> running, _spinCount |-> _spinCount, statusText |-> statusText]

SetSched(s) ==
  /\ _analyzers' = s._analyzers
  /\ _lastRevision' = s._lastRevision
  /\ _timeout' = s._timeout
  /\ timers' = s.timers
  /\ abandoned' = s.abandoned
  /\ running' = s.running
  /\ _spinCount' = s._spinCount
  /\ statusText' = s.statusText

TimersOf(ts, document) == {t \in ts : t.doc = document}
RunsOf(rs, document) == {i \in 1..Len(rs) : rs[i].doc = document}

\* The sequence q without its element number i.
Without(q, i) == SubSeq(q, 1, i - 1) \o SubSeq(q, i + 1, Len(q))

----------------------------------------------------------------------------
(* The diagnostics surface: Analyzer._diagnostics and its collection.      *)

Surface ==
  [_diagnostics |-> _diagnostics, created |-> created, collection |-> collection]

SetSurface(x) ==
  /\ _diagnostics' = x._diagnostics
  /\ created' = x.created
  /\ collection' = x.collection

\* Analyzer.initialize without the test of Analyzer._diagnostics.
initializeAlways(x) ==
  [_diagnostics |-> x.created + 1, created |-> x.created + 1,
   collection |-> NoDiagnostics]

\* Analyzer.initialize: createDiagnosticCollection only if there is none.
initialize(x) ==
  IF x._diagnostics = 0
  THEN [_diagnostics |-> x.created + 1, created |-> x.created + 1,
        collection |-> NoDiagnostics]
  ELSE x

\* Analyzer.dispose: DiagnosticCollection.dispose() drops the entries.
dispose(x) ==
  IF x._diagnostics # 0
  THEN [x EXCEPT !._diagnostics = 0, !.collection = NoDiagnostics]
  ELSE [x EXCEPT !._diagnostics = 0]

\* A publish loop that uses Analyzer._diagnostics as it is, without
\* Analyzer.initialize(): the entries go to the collection last created.
PublishRoundsAsIs(x, diagnostics, uris) ==
  [x EXCEPT !.collection = Publish(@, diagnostics)]

\* The publish loop on the surface: every round goes through
\* Analyzer._getDiagnostics(), which calls Analyzer.initialize().
RECURSIVE PublishRounds(_, _, _)
PublishRounds(x, diagnostics, uris) ==
  IF uris = {} THEN x
  ELSE LET uri == CHOOSE u \in uris : TRUE
           round == [u \in {uri} |-> diagnostics[u]]
       IN  PublishRounds([initialize(x) EXCEPT !.collection = Publish(@, round)],
                         diagnostics, uris \ {uri})

PublishTo(x, diagnostics) == PublishRounds(x, diagnostics, DOMAIN diagnostics)

----------------------------------------------------------------------------
(* The Analyzer's scheduling methods, as functions of the scheduler state. *)

\* Analyzer.getFor constructing a new Analyzer on every call.
getForFresh(s, document) ==
  IF getWorkspaceFolder(document) = NoFolder THEN [s |-> s, threw |-> TRUE]
  ELSE [s |-> [s EXCEPT !._analyzers = @ \cup {document},
                        !._lastRevision[document] = TextEmpty,
                        !._timeout[document] = 0],
        threw |-> FALSE]

\* Analyzer.getFor registering the uri before the constructor has checked
\* the workspace folder.
getForRegisterFirst(s, document) ==
  IF document \in s._analyzers THEN [s |-> s, threw |-> FALSE]
  ELSE [s |-> [s EXCEPT !._analyzers = @ \cup {document},
                        !._lastRevision[document] = TextEmpty,
                        !._timeout[document] = 0],
        threw |-> getWorkspaceFolder(document) = NoFolder]

\* Analyzer.getFor with the constructor: [s, threw].  A new analyzer has
\* _lastRevision '' and _timeout null.
getFor(s, document) ==
  IF document \in s._analyzers THEN [s |-> s, threw |-> FALSE]
  ELSE IF getWorkspaceFolder(document) = NoFolder THEN [s |-> s, threw |-> TRUE]
  ELSE [s |-> [s EXCEPT !._analyzers = @ \cup {document},
                        !._lastRevision[document] = TextEmpty,
                        !._timeout[document] = 0],
        threw |-> FALSE]

\* Logger.spinner up to the await of fn, with fn the start of the pipeline
\* of Analyzer._runInternal: the exec call.
_runInternal(s, document) ==
  [s EXCEPT !._spinCount = @ + 1,
            !.statusText = StatusSpinning,
            !.running = Append(@, [doc |-> document,
                                   sourceFilePath |-> asRelativePath(document)])]

\* Analyzer.run without the assignment to _lastRevision.
runForgetful(s, document, force, revision) ==
  IF force \/ revision # s._lastRevision[document]
  THEN _runInternal(s, document)
  ELSE s

\* Analyzer.run called as run(), whatever the caller passes for force.
runUnforced(s, document, force, revision) ==
  IF revision # s._lastRevision[document]
  THEN _runInternal([s EXCEPT !._lastRevision[document] = revision], document)
  ELSE s

\* Analyzer.run without the comparison of the revision.
runAlways(s, document, force, revision) ==
  _runInternal([s EXCEPT !._lastRevision[document] = revision], document)

\* Analyzer.run up to its await; revision is this._document.getText().
run(s, document, force, revision) ==
  IF force \/ revision # s._lastRevision[document]
  THEN _runInternal([s EXCEPT !._lastRevision[document] = revision], document)
  ELSE s

\* setTimeout: a handle that names no armed timer of the document and is
\* not the handle the analyzer still holds.
NewHandle(s, document) ==
  CHOOSE h \in 1..MaxTimers :
    /\ h # s._timeout[document]
    /\ h \notin {t.handle : t \in TimersOf(s.timers, document)}
    /\ \A g \in 1..(h - 1) :
         \/ g = s._timeout[document]
         \/ g \in {t.handle : t \in TimersOf(s.timers, document)}

HandleLeft(s, document) ==
  \E h \in 1..MaxTimers :
    /\ h # s._timeout[document]
    /\ h \notin {t.handle : t \in TimersOf(s.timers, document)}

\* Analyzer._debounce without the clearTimeout.
_debounceNoClear(s, document, seconds) ==
  [s EXCEPT !.timers = @ \cup {[handle |-> NewHandle(s, document),
                                doc |-> document, seconds |-> seconds]},
            !._timeout[document] = NewHandle(s, document)]

\* Analyzer._debounce with one timeout slot for all analyzers: the pending
\* timer is cleared whichever document it belongs to.
_debounceShared(s, document, seconds) ==
  LET cleared == {t \in s.timers :
                    t.handle # s._timeout[t.doc] \/ s._timeout[t.doc] = 0}
      handle == NewHandle(s, document)
  IN  [s EXCEPT !.timers = cleared \cup {[handle |-> handle, doc |-> document,
                                          seconds |-> seconds]},
                !._timeout[document] = handle]

\* Analyzer._debounce.  clearTimeout drops the armed timer; the promise
\* whose resolve that timer would have called is left pending, and so is
\* the runIn call that awaits it.
_debounce(s, document, seconds) ==
  LET cleared == IF s._timeout[document] # 0
                 THEN {t \in s.timers :
                         ~(t.doc = document /\ t.handle = s._timeout[document])}
                 ELSE s.timers
      handle == NewHandle(s, document)
  IN  [s EXCEPT !.timers = cleared \cup {[handle |-> handle, doc |-> document,
                                          seconds |-> seconds]},
                !.abandoned[document] = @ \/ cleared # s.timers,
                !._timeout[document] = handle]

\* Analyzer.runIn up to the await of the debounce.
runIn(s, document, seconds, revision) ==
  IF revision # s._lastRevision[document]
  THEN _debounce([s EXCEPT !._lastRevision[document] = revision], document, seconds)
  ELSE s

\* The body of the try of a handler that awaits getFor(document).run(force);
\* an exception of getFor is caught and logged.
TryRun(s, document, force, revision) ==
  LET g == getFor(s, document)
  IN  IF g.threw THEN g.s ELSE run(g.s, document, force, revision)

\* The forEach of onDidChangeVisibleTextEditors over the editors' documents.
RECURSIVE RunEach(_, _, _)
RunEach(s, documents, txt) ==
  IF documents = <<>> THEN s
  ELSE RunEach(IF languageId(Head(documents)) \in supportedLanguages
               THEN TryRun(s, Head(documents), FALSE, txt[Head(documents)])
               ELSE s,
               Tail(documents), txt)

\* The body of the try of onDidSaveTextDocument.
TryRunIn(s, document, revision) ==
  LET g == getFor(s, document)
  IN  IF g.threw THEN g.s ELSE runIn(g.s, document, DebounceSeconds, revision)

\* A finally of Logger.spinner that shows the idle text whenever a wrapped
\* operation ends, whatever the count.
SpinnerDoneIdle(s) ==
  [s EXCEPT !._spinCount = @ - 1, !.statusText = StatusIdle]

\* The finally of Logger.spinner.
SpinnerDone(s) ==
  [s EXCEPT !._spinCount = @ - 1,
            !.statusText = IF s._spinCount - 1 = 0 THEN StatusIdle ELSE @]

----------------------------------------------------------------------------
(* Inputs.                                                                 *)

\* vscode.window.activeTextEditor is undefined
NoDocument == <<>>

\* The documents the user works on.
Focus == {DocA}

\* The reports the tool can print in this model.
ReportOther == << OtherLine >>
ReportAddA == << AddLine(<<"a.cc">>, 1, 1, "x1", "<vector>") >>
ReportCorrectA == << CorrectLine(<<"a.cc">>) >>
ReportRemoveB ==
  << HeaderLine(<<".", "b.h">>), RemoveLine("\"bar.h\"", 1, 3, 3), BlankLine >>
ReportBadRow == << AddLine(<<"b.h">>, 0, 1, "y", "<y>") >>
Reports == {ReportOther, ReportAddA, ReportCorrectA, ReportRemoveB, ReportBadRow}

\* The uris a report names: by a CorrectMarker, an add-finding or the
\* header of a removal block.
FilesNamed(root, lines) ==
  {joinPath(root, lines[i].path) :
     i \in {j \in 1..Len(lines) : lines[j].kind \in {"correct", "add", "header"}}}

Files ==
  Documents \cup UNION {FilesNamed(f, r) : f \in WorkspaceFolders, r \in Reports}

\* Editor lists of onDidChangeVisibleTextEditors, as their documents.
RECURSIVE SeqsUpTo(_, _)
SeqsUpTo(S, n) ==
  IF n = 0 THEN { <<>> }
  ELSE LET shorter == SeqsUpTo(S, n - 1)
       IN  shorter \cup {Append(q, x) : q \in shorter, x \in S}

EditorLists == SeqsUpTo(Focus, MaxEditors)

----------------------------------------------------------------------------
(* History.                                                                *)

NoEvent ==
  [op |-> "init", doc |-> NoDocument, docs |-> <<>>, started |-> 0,
   pending |-> 0, report |-> <<>>, threw |-> FALSE, solo |-> "none",
   revert |-> FALSE, superseded |-> FALSE, stale |-> FALSE, reinit |-> FALSE,
   again |-> FALSE, lazy |-> FALSE]

\* Handle of the timer pending for the document, 0 if none.
PendingHandle(document) ==
  IF TimersOf(timers, document) = {} THEN 0
  ELSE (CHOOSE t \in TimersOf(timers, document) : TRUE).handle

\* The history after a handler took the scheduler to s2.
Record(s2) ==
  LET started(d) == Cardinality(RunsOf(s2.running, d)) - Cardinality(RunsOf(running, d))
      armed(d) == TimersOf(s2.timers, d) \ timers # {}
  IN  /\ overtaken' = overtaken \o [i \in 1..(Len(s2.running) - Len(running)) |-> {}]
      /\ seen' = [d \in Documents |->
                    IF started(d) > 0 \/ armed(d) THEN text[d] ELSE seen[d]]
      /\ solo' = [d \in Documents |->
                    IF /\ started(d) = 1
                       /\ Cardinality(RunsOf(s2.running, d)) = 1
                       /\ TimersOf(s2.timers, d) = {}
                    THEN IF text[d] # _lastRevision[d] THEN "changed" ELSE "same"
                    ELSE IF started(d) > 0 \/ armed(d) THEN "none"
                    ELSE solo[d]]
      /\ base' = [d \in Documents |-> IF started(d) > 0 THEN NoText ELSE base[d]]
      /\ superseded' =
           [d \in Documents |->
              IF armed(d) THEN FALSE
              ELSE superseded[d] \/ (started(d) > 0 /\ TimersOf(timers, d) # {})]

----------------------------------------------------------------------------
(* The operations.                                                         *)

Init ==
  /\ text = [d \in Documents |-> TextEmpty]
  /\ _analyzers = {}
  /\ _lastRevision = [d \in Documents |-> TextEmpty]
  /\ _timeout = [d \in Documents |-> 0]
  /\ timers = {}
  /\ abandoned = [d \in Documents |-> FALSE]
  /\ running = <<>>
  /\ _spinCount = 0
  /\ statusText = StatusIdle
  /\ collection = NoDiagnostics
  /\ _diagnostics = 1
  /\ created = 1
  /\ active = TRUE
  /\ codeActions = NoCall
  /\ overtaken = <<>>
  /\ seen = [d \in Documents |-> NoText]
  /\ solo = [d \in Documents |-> "none"]
  /\ base = [d \in Documents |-> NoText]
  /\ superseded = [d \in Documents |-> FALSE]
  /\ burstDiff = [d \in Documents |-> FALSE]
  /\ last = NoEvent

\* The user edits a document in the editor.
EditDocument(document, txt) ==
  /\ txt # text[document]
  /\ text' = [text EXCEPT ![document] = txt]
  /\ solo' = [solo EXCEPT ![document] = "none"]
  /\ last' = [NoEvent EXCEPT !.op = "edit", !.doc = document]
  /\ UNCHANGED <<progVars, hostVars, overtaken, seen, base, superseded, burstDiff>>

\* The command iwyu.analyzeFile, with the active editor's document.
AnalyzeFile(document) ==
  \E s2 \in {IF document = NoDocument THEN Sched
              ELSE TryRun(Sched, document, TRUE, text[document])} :
      /\ active
      /\ Len(s2.running) <= MaxRuns
      /\ SetSched(s2)
      /\ Record(s2)
      /\ last' = [NoEvent EXCEPT !.op = "analyzeFile", !.doc = document,
                                 !.started = Len(s2.running) - Len(running)]
      /\ UNCHANGED <<text, collection, hostVars, burstDiff>>

\* onDidChangeVisibleTextEditors, with the documents of the editors.
VisibleEditorsChanged(documents) ==
  \E s2 \in {RunEach(Sched, documents, text)} :
      /\ active
      /\ Len(s2.running) <= MaxRuns
      /\ SetSched(s2)
      /\ Record(s2)
      /\ last' = [NoEvent EXCEPT !.op = "visible", !.docs = documents,
                                 !.reinit = (last.op = "activate"),
                                 !.started = Len(s2.running) - Len(running)]
      /\ UNCHANGED <<text, collection, hostVars, burstDiff>>

\* onDidSaveTextDocument
SaveDocument(document) ==
  \E s2 \in {IF languageId(document) \in supportedLanguages
              THEN TryRunIn(Sched, document, text[document])
              ELSE Sched} :
      /\ active
      /\ text[document] # _lastRevision[document] => HandleLeft(Sched, document)
      /\ SetSched(s2)
      /\ Record(s2)
      /\ burstDiff' = [burstDiff EXCEPT
                         ![document] = @ \/ text[document] # _lastRevision[document]]
      /\ last' = [NoEvent EXCEPT !.op = "save", !.doc = document,
                                 !.pending = PendingHandle(document),
                                 !.started = Len(s2.running) - Len(running)]
      /\ UNCHANGED <<text, collection, hostVars>>

\* A debounce timer fires: the callback resolves the promise of _debounce
\* and runIn goes on to _runInternal.
TimerFires(t) ==
  \E s2 \in {_runInternal([Sched EXCEPT !.timers = @ \ {t}], t.doc)} :
  LET d == t.doc
      alone == Cardinality(RunsOf(s2.running, d)) = 1 /\ TimersOf(s2.timers, d) = {}
  IN  /\ t \in timers
      /\ Len(s2.running) <= MaxRuns
      /\ SetSched(s2)
      /\ overtaken' = Append(overtaken, {})
      /\ solo' = [solo EXCEPT ![d] = IF alone /\ text[d] = _lastRevision[d]
                                     THEN "changed" ELSE "none"]
      /\ base' = [base EXCEPT ![d] = NoText]
      /\ superseded' = [superseded EXCEPT ![d] = FALSE]
      /\ burstDiff' = [burstDiff EXCEPT ![d] = FALSE]
      /\ last' = [NoEvent EXCEPT
                    !.op = "fire", !.doc = d,
                    !.started = Len(s2.running) - Len(running),
                    !.superseded = superseded[d],
                    !.revert = /\ base[d] # NoText
                               /\ text[d] = base[d]
                               /\ _lastRevision[d] = base[d]]
      /\ UNCHANGED <<text, collection, hostVars, seen>>

\* What the end of run number i does to the history of the other runs.
RunEnds(i, written) ==
  /\ overtaken' = Without([j \in 1..Len(overtaken) |->
                             IF j < i THEN overtaken[j] \cup written
                             ELSE overtaken[j]], i)
  /\ solo' = [solo EXCEPT ![running[i].doc] = "none"]

\* A resolution whose parse goes on from the published lists, as if the
\* DiagnosticsByUri object were kept between runs.
ExecResolvesKept(i, stdout) ==
  /\ i \in 1..Len(running)
  /\ \E parsed \in {ParseLines(getWorkspaceFolder(running[i].doc),
                               text[running[i].doc], stdout, 1, collection)} :
     \E surface \in {IF parsed.threw THEN Surface
                      ELSE PublishTo(Surface, parsed.diagnostics)} :
       LET d == running[i].doc
           written == IF parsed.threw THEN {} ELSE DOMAIN parsed.diagnostics
       IN  /\ surface.created <= MaxSurfaces
           /\ SetSurface(surface)
           /\ SetSched(SpinnerDone([Sched EXCEPT !.running = Without(@, i)]))
           /\ RunEnds(i, written)
           /\ base' = [base EXCEPT ![d] = IF solo[d] # "none" /\ ~parsed.threw
                                          THEN _lastRevision[d] ELSE NoText]
           /\ last' = [NoEvent EXCEPT
                         !.op = "resolve", !.doc = d, !.report = stdout,
                         !.threw = parsed.threw, !.solo = solo[d],
                         !.stale = written \cap overtaken[i] # {},
                         !.again = /\ last.op = "resolve" /\ ~last.threw
                                   /\ last.doc = d /\ last.report = stdout,
                         !.lazy = surface.created # created]
           /\ UNCHANGED <<text, active, codeActions, seen, superseded, burstDiff>>

\* The exec of run number i resolves with a report: the rest of the
\* callback of the spinner in _runInternal (parse, publish) and the
\* spinner's finally.  An exception of the parse skips the publish loop.
\* parsed is the one DiagnosticsByUri object of the run and surface the
\* state of the collection after its publish loop.
ExecResolves(i, stdout) ==
  /\ i \in 1..Len(running)
  /\ \E parsed \in {ParseReport(getWorkspaceFolder(running[i].doc),
                                text[running[i].doc], stdout)} :
     \E surface \in {IF parsed.threw THEN Surface
                      ELSE PublishTo(Surface, parsed.diagnostics)} :
       LET d == running[i].doc
           written == IF parsed.threw THEN {} ELSE DOMAIN parsed.diagnostics
       IN  /\ surface.created <= MaxSurfaces
           /\ SetSurface(surface)
           /\ SetSched(SpinnerDone([Sched EXCEPT !.running = Without(@, i)]))
           /\ RunEnds(i, written)
           /\ base' = [base EXCEPT ![d] = IF solo[d] # "none" /\ ~parsed.threw
                                          THEN _lastRevision[d] ELSE NoText]
           /\ last' = [NoEvent EXCEPT
                         !.op = "resolve", !.doc = d, !.report = stdout,
                         !.threw = parsed.threw, !.solo = solo[d],
                         !.stale = written \cap overtaken[i] # {},
                         !.again = /\ last.op = "resolve" /\ ~last.threw
                                   /\ last.doc = d /\ last.report = stdout,
                         !.lazy = surface.created # created]
           /\ UNCHANGED <<text, active, codeActions, seen, superseded, burstDiff>>

\* A rejection handled by clearing the diagnostics of the run's document.
ExecRejectsClearing(i) ==
  /\ i \in 1..Len(running)
  /\ SetSched(SpinnerDone([Sched EXCEPT !.running = Without(@, i)]))
  /\ RunEnds(i, {})
  /\ collection' = [u \in DOMAIN collection \ {running[i].doc} |-> collection[u]]
  /\ last' = [NoEvent EXCEPT !.op = "reject", !.doc = running[i].doc,
                             !.solo = solo[running[i].doc]]
  /\ UNCHANGED <<text, hostVars, seen, base, superseded, burstDiff>>

\* The exec of run number i rejects: the spinner's finally runs and the
\* error reaches the handler's catch, which logs it.
ExecRejects(i) ==
  /\ i \in 1..Len(running)
  /\ SetSched(SpinnerDone([Sched EXCEPT !.running = Without(@, i)]))
  /\ RunEnds(i, {})
  /\ last' = [NoEvent EXCEPT !.op = "reject", !.doc = running[i].doc,
                             !.solo = solo[running[i].doc]]
  /\ UNCHANGED <<text, collection, hostVars, seen, base, superseded, burstDiff>>

Next ==
  \/ \E d \in Focus, txt \in Texts : EditDocument(d, txt)
  \/ \E d \in Focus \cup {NoDocument} : AnalyzeFile(d)
  \/ \E ds \in EditorLists : VisibleEditorsChanged(ds)
  \/ \E d \in Focus : SaveDocument(d)
  \/ \E d \in Focus, h \in 1..MaxTimers :
       TimerFires([handle |-> h, doc |-> d, seconds |-> DebounceSeconds])
  \/ \E i \in 1..MaxRuns, stdout \in Reports : ExecResolves(i, stdout)
  \/ \E i \in 1..MaxRuns : ExecRejects(i)

Spec == Init /\ [][Next]_vars

----------------------------------------------------------------------------
(* Deactivation and activation of the extension in one process.           *)

\* deactivation: the host disposes context.subscriptions, that is the
\* handlers and the Analyzer class pushed by activate (Analyzer.dispose).
\* Runs in flight and armed timers go on.
Deactivate ==
  /\ active
  /\ active' = FALSE
  /\ SetSurface(dispose(Surface))
  /\ last' = [NoEvent EXCEPT !.op = "deactivate"]
  /\ UNCHANGED <<text, _analyzers, _lastRevision, _timeout, timers, abandoned, running,
                 _spinCount, statusText, codeActions,
                 overtaken, seen, solo, base, superseded, burstDiff>>

\* activate: Analyzer.initialize() and the registration of the handlers.
Activate ==
  /\ ~active
  /\ initialize(Surface).created <= MaxSurfaces
  /\ active' = TRUE
  /\ SetSurface(initialize(Surface))
  /\ last' = [NoEvent EXCEPT !.op = "activate"]
  /\ UNCHANGED <<text, _analyzers, _lastRevision, _timeout, timers, abandoned, running,
                 _spinCount, statusText, codeActions,
                 overtaken, seen, solo, base, superseded, burstDiff>>

\* The user edits, looks at editors and runs the command, but saves nothing.
NextLifecycle ==
  \/ \E d \in Focus, txt \in Texts : EditDocument(d, txt)
  \/ \E d \in Focus \cup {NoDocument} : AnalyzeFile(d)
  \/ \E ds \in EditorLists : VisibleEditorsChanged(ds)
  \/ \E i \in 1..MaxRuns, stdout \in Reports : ExecResolves(i, stdout)
  \/ \E i \in 1..MaxRuns : ExecRejects(i)
  \/ Deactivate
  \/ Activate

SpecLifecycle == Init /\ [][NextLifecycle]_vars

----------------------------------------------------------------------------
(* The registry of analyzers: the command and the save handler are called *)
(* for every document, also the one outside the workspace; the user edits *)
(* a.cc; every exec fails.                                                 *)

RegistryTexts == {TextEmpty, TextB}

NextRegistry ==
  \/ \E txt \in RegistryTexts : EditDocument(DocA, txt)
  \/ \E d \in Documents : AnalyzeFile(d)
  \/ \E d \in Documents : SaveDocument(d)
  \/ \E d \in Documents, h \in 1..MaxTimers :
       TimerFires([handle |-> h, doc |-> d, seconds |-> DebounceSeconds])
  \/ \E i \in 1..MaxRuns : ExecRejects(i)

SpecRegistry == Init /\ [][NextRegistry]_vars

----------------------------------------------------------------------------
(* Two documents side by side: a.cc and b.h are each edited once and saved *)
(* in any order, the command analyzes a.cc, their timers fire and their   *)
(* runs end with a report that names a.cc, a report that names b.h, or a  *)
(* failure.                                                                *)

NextCross ==
  \/ \E d \in {DocA, DocB} : EditDocument(d, TextB)
  \/ AnalyzeFile(DocA)
  \/ \E d \in {DocA, DocB} : SaveDocument(d)
  \/ \E d \in {DocA, DocB}, h \in 1..MaxTimers :
       TimerFires([handle |-> h, doc |-> d, seconds |-> DebounceSeconds])
  \/ \E i \in 1..MaxRuns, stdout \in {ReportAddA, ReportRemoveB} :
       ExecResolves(i, stdout)
  \/ \E i \in 1..MaxRuns : ExecRejects(i)

SpecCross == Init /\ [][NextCross]_vars

----------------------------------------------------------------------------
(* The debounce under fair scheduling: a.cc is edited and saved at will;   *)
(* the host's event loop runs the callback of every timer that stays armed *)
(* and the tool terminates, so the exec of the oldest run in flight ends.  *)

NextSettle ==
  \/ \E txt \in Texts : EditDocument(DocA, txt)
  \/ SaveDocument(DocA)
  \/ \E h \in 1..MaxTimers :
       TimerFires([handle |-> h, doc |-> DocA, seconds |-> DebounceSeconds])
  \/ \E i \in 1..MaxRuns : ExecResolves(i, ReportAddA)
  \/ \E i \in 1..MaxRuns : ExecRejects(i)

SpecSettle ==
  /\ Init
  /\ [][NextSettle]_vars
  /\ WF_vars(\E h \in 1..MaxTimers :
               TimerFires([handle |-> h, doc |-> DocA, seconds |-> DebounceSeconds]))
  /\ WF_vars(ExecRejects(1) \/ ExecResolves(1, ReportAddA))

----------------------------------------------------------------------------
(* The parser and the publish loop on their own: one run of a.cc is in     *)
(* flight over the diagnostics an earlier run has published, and its exec  *)
(* resolves with any report of up to MaxLines lines.                       *)

LineAlphabet ==
  { CorrectLine(<<"a.cc">>),
    AddLine(<<"a.cc">>, 1, 1, "x1", "<vector>"),
    AddLine(<<"a.cc">>, 0, 1, "y", "<y>"),
    AddLine(<<"b.h">>, 1, 1, "x1", "<vector>"),
    HeaderLine(<<"a.cc">>),
    RemoveLine("\"bar.h\"", 1, 3, 4),
    RemoveLine("<z>", 2, 0, 0),
    BlankLine,
    OtherLine }

ParseInputs == SeqsUpTo(LineAlphabet, MaxLines) \ { <<>> }

EarlierReports == {ReportOther, ReportAddA}

InitParse ==
  /\ \E txt \in Texts :
       /\ text = [d \in Documents |-> IF d = DocA THEN txt ELSE TextEmpty]
       /\ _lastRevision = [d \in Documents |-> IF d = DocA THEN txt ELSE TextEmpty]
       /\ seen = [d \in Documents |-> IF d = DocA THEN txt ELSE NoText]
  /\ \E txt0 \in Texts, r \in EarlierReports :
       collection = Publish(NoDiagnostics,
                            ParseReport(getWorkspaceFolder(DocA), txt0, r).diagnostics)
  /\ _analyzers = {DocA}
  /\ _timeout = [d \in Documents |-> 0]
  /\ timers = {}
  /\ abandoned = [d \in Documents |-> FALSE]
  /\ running = << [doc |-> DocA, sourceFilePath |-> asRelativePath(DocA)] >>
  /\ _spinCount = 1
  /\ statusText = StatusSpinning
  /\ _diagnostics = 1
  /\ created = 1
  /\ active = TRUE
  /\ codeActions = NoCall
  /\ overtaken = << {} >>
  /\ solo = [d \in Documents |-> "none"]
  /\ base = [d \in Documents |-> NoText]
  /\ superseded = [d \in Documents |-> FALSE]
  /\ burstDiff = [d \in Documents |-> FALSE]
  /\ last = [NoEvent EXCEPT !.op = "analyzeFile", !.doc = DocA, !.started = 1]

NextParse == \E stdout \in ParseInputs : ExecResolves(1, stdout)

SpecParse == InitParse /\ [][NextParse]_vars

----------------------------------------------------------------------------
(* The quick fixes: CodeActionProvider.  A message is a sequence of the    *)
(* pieces its template joins; an include specifier is one piece.          *)

Whitespace == {" ", "\t", NL}

\* The character at index i (from 1) of a text, "" past its end.
CharAt(txt, i) == IF i >= 1 /\ i <= Len(txt) THEN txt[i] ELSE ""

\* Does the text read word at index i?
StartsWith(txt, i, word) ==
  /\ i + Len(word) - 1 <= Len(txt)
  /\ \A k \in 1..Len(word) : txt[i + k - 1] = word[k]

\* ([^*]|\*[^/])*\*\/ from index q: the index after the comment, 0 when the
\* pattern does not match.
RECURSIVE CommentBody(_, _)
CommentBody(txt, q) ==
  IF q > Len(txt) THEN 0
  ELSE IF txt[q] # "*" THEN CommentBody(txt, q + 1)
  ELSE IF q + 1 > Len(txt) THEN 0
  ELSE IF txt[q + 1] = "/" THEN q + 2
  ELSE CommentBody(txt, q + 2)

\* One step of (?:\/\*([^*]|\*[^/])*\*\/|\s): the index after it, 0 if none.
BlankStep(txt, q) ==
  IF StartsWith(txt, q, <<"/", "*">>) THEN CommentBody(txt, q + 2)
  ELSE IF CharAt(txt, q) \in Whitespace THEN q + 1
  ELSE 0

\* The indexes (?:comment|\s)* can stop at from q, the shortest match first.
RECURSIVE BlankChain(_, _)
BlankChain(txt, q) ==
  IF BlankStep(txt, q) = 0 THEN <<q>>
  ELSE <<q>> \o BlankChain(txt, BlankStep(txt, q))

\* Index of the first character at or after i that is not in class C.
RECURSIVE SkipClass(_, _, _)
SkipClass(txt, i, C) ==
  IF CharAt(txt, i) \in C THEN SkipClass(txt, i + 1, C) ELSE i

\* \s+[A-Za-z_][A-Za-z0-9_]* from index i: the indexes the match can end
\* before, the longest identifier first.
GuardNameEnds(txt, i) ==
  LET n == SkipClass(txt, i, Whitespace)
      e == SkipClass(txt, n + 1, Letters \cup Digits \cup {"_"})
  IN  IF n > i /\ CharAt(txt, n) \in Letters \cup {"_"}
      THEN [k \in 1..(e - n) |-> e + 1 - k]
      ELSE <<>>

\* \s*(?:"[^"]*"|<[^>]*>) from index i.
IncludeEnds(txt, i) ==
  LET n == SkipClass(txt, i, Whitespace)
      close == IF CharAt(txt, n) = "\"" THEN IndexFrom(txt, "\"", n + 1)
               ELSE IF CharAt(txt, n) = "<" THEN IndexFrom(txt, ">", n + 1)
               ELSE 0
  IN  IF close = 0 THEN <<>> ELSE <<close + 1>>

\* #\s*(?:ifndef...|define...|include...) from index q: the indexes the
\* match can end before, in the order the matcher tries them.
DirectiveEnds(txt, q) ==
  LET w == SkipClass(txt, q + 1, Whitespace)
  IN  IF CharAt(txt, q) # "#" THEN <<>>
      ELSE IF StartsWith(txt, w, <<"i", "f", "n", "d", "e", "f">>)
      THEN GuardNameEnds(txt, w + 6)
      ELSE IF StartsWith(txt, w, <<"d", "e", "f", "i", "n", "e">>)
      THEN GuardNameEnds(txt, w + 6)
      ELSE IF StartsWith(txt, w, <<"i", "n", "c", "l", "u", "d", "e">>)
      THEN IncludeEnds(txt, w + 7)
      ELSE <<>>

\* (?:\/\/[^\n]*)?\n from index u: the index after the newline, 0 if none.
LineEnd(txt, u) ==
  LET stop == IF StartsWith(txt, u, <<"/", "/">>)
              THEN (IF IndexFrom(txt, NL, u) = 0 THEN Len(txt) + 1
                    ELSE IndexFrom(txt, NL, u))
              ELSE u
  IN  IF CharAt(txt, stop) = NL THEN stop + 1 ELSE 0

\* (?:comment|\s)*(?:\/\/[^\n]*)?\n from index r: the star is greedy and
\* gives characters back until the rest matches.
TrailerEnd(txt, r) ==
  LET chain == BlankChain(txt, r)
      good == {k \in 1..Len(chain) : LineEnd(txt, chain[k]) # 0}
  IN  IF good = {} THEN 0
      ELSE LineEnd(txt, chain[CHOOSE k \in good : \A j \in good : j <= k])

\* The optional directive and the rest of the line from index q.
DirectiveLineEnd(txt, q) ==
  LET ends == DirectiveEnds(txt, q) \o <<q>>
      good == {k \in 1..Len(ends) : TrailerEnd(txt, ends[k]) # 0}
  IN  IF good = {} THEN 0
      ELSE TrailerEnd(txt, ends[CHOOSE k \in good : \A j \in good : k <= j])

\* One repetition of the outer group of PROLOGUE_PATTERN from index p.
PrologueLineEnd(txt, p) ==
  LET chain == BlankChain(txt, p)
      good == {k \in 1..Len(chain) : DirectiveLineEnd(txt, chain[k]) # 0}
  IN  IF good = {} THEN 0
      ELSE DirectiveLineEnd(txt, chain[CHOOSE k \in good : \A j \in good : j <= k])

\* The index after the match of PROLOGUE_PATTERN that starts at index p.
RECURSIVE PrologueEnd(_, _)
PrologueEnd(txt, p) ==
  IF PrologueLineEnd(txt, p) = 0 THEN p
  ELSE PrologueEnd(txt, PrologueLineEnd(txt, p))

\* document.getText().match(PROLOGUE_PATTERN)[0].length
PROLOGUE_PATTERN(txt) == PrologueEnd(txt, 1) - 1

\* TextDocument.positionAt(offset)
positionAt(txt, offset) ==
  LET o == IF offset < 0 THEN 0
           ELSE IF offset > Len(txt) THEN Len(txt) ELSE offset
      before == {s \in LineStarts(txt) : s <= o}
      start == CHOOSE s \in before : \A q \in before : q <= s
  IN  Position(Cardinality(before) - 1, o - start)

\* The pieces of the messages of this model that ("[^"]+"|<[^>]+>) matches.
IncludeSpecs == {"<vector>", "\"bar.h\"", "<y>", "<z>"}

NoMatchGroups == <<>>

\* message.match(/ is defined in ("[^"]+"|<[^>]+>), which isn't directly
\* #included.$/): the captured groups, none when there is no match.
MatchAddition(message) ==
  LET n == Len(message)
  IN  IF /\ n >= 3
         /\ message[n - 2] = " is defined in "
         /\ message[n - 1] \in IncludeSpecs
         /\ message[n] = ", which isn't directly #included."
      THEN <<message[n - 1]>>
      ELSE NoMatchGroups

\* message.match(/^Unused #include (.+)\.$/)
MatchRemoval(message) ==
  IF /\ Len(message) = 3
     /\ message[1] = "Unused #include "
     /\ message[2] # ""
     /\ message[3] = "."
  THEN <<message[2]>>
  ELSE NoMatchGroups

CodeAction(title, diagnostic, edit) ==
  [title |-> title, kind |-> "quickfix", diagnostics |-> <<diagnostic>>,
   edit |-> edit]

\* The outcome of a call that returns an action (null is no action).
Returned(action) == [threw |-> FALSE, action |-> action]

\* CodeActionProvider.createQuickFixForAddition: taking the groups of a
\* match that is null raises.
createQuickFixForAddition(document, txt, diagnostic) ==
  LET match == MatchAddition(diagnostic.message)
      header == match[1]
      position == positionAt(txt, PROLOGUE_PATTERN(txt))
  IN  IF match = NoMatchGroups THEN [threw |-> TRUE]
      ELSE Returned(CodeAction(<<"Include header ", header>>, diagnostic,
                               [kind |-> "insert", uri |-> document,
                                position |-> position,
                                newText |-> <<"#include ", header, NL, NL>>]))

\* A removal fix that deletes the range of the diagnostic itself.
createQuickFixForRemovalOfRange(document, txt, diagnostic) ==
  LET match == MatchRemoval(diagnostic.message)
  IN  Returned(CodeAction(IF match # NoMatchGroups
                          THEN <<"Remove header ", match[1]>>
                          ELSE <<"Remove header">>,
                          diagnostic,
                          [kind |-> "delete", uri |-> document,
                           range |-> diagnostic.range]))

\* CodeActionProvider.createQuickFixForRemoval
createQuickFixForRemoval(document, txt, diagnostic) ==
  LET match == MatchRemoval(diagnostic.message)
      start == diagnostic.range.start
      range == Range(start.line, start.character, start.line + 1, 0)
  IN  Returned(CodeAction(IF match # NoMatchGroups
                          THEN <<"Remove header ", match[1]>>
                          ELSE <<"Remove header">>,
                          diagnostic,
                          [kind |-> "delete", uri |-> document,
                           range |-> range]))

\* The callback of the map in provideCodeActions; null is no action.
QuickFixFor(document, txt, diagnostic) ==
  IF diagnostic.code = "add"
  THEN createQuickFixForAddition(document, txt, diagnostic)
  ELSE IF diagnostic.code = "remove"
  THEN createQuickFixForRemoval(document, txt, diagnostic)
  ELSE Returned([kind |-> "null"])

\* CodeActionProvider.provideCodeActions: an exception of the callback ends
\* the call.
provideCodeActions(document, txt, diagnostics) ==
  LET own == SelectSeq(diagnostics, LAMBDA d : d.source = "iwyu")
      mapped == [k \in 1..Len(own) |-> QuickFixFor(document, txt, own[k])]
      kept == SelectSeq(mapped, LAMBDA r : r.action.kind # "null")
  IN  IF \E k \in 1..Len(mapped) : mapped[k].threw
      THEN [context |-> diagnostics, threw |-> TRUE, actions |-> <<>>]
      ELSE [context |-> diagnostics, threw |-> FALSE,
            actions |-> [k \in 1..Len(kept) |-> kept[k].action]]

\* The text after the editor applies the edit of a quick fix: positions are
\* clamped into the text as offsetAt does.
ApplyEdit(txt, edit) ==
  IF edit.kind = "delete"
  THEN SubSeq(txt, 1, offsetAt(txt, edit.range.start))
         \o substring(txt, offsetAt(txt, edit.range.end))
  ELSE SubSeq(txt, 1, offsetAt(txt, edit.position))
         \o edit.newText \o substring(txt, offsetAt(txt, edit.position))

\* The physical lines of a text, without their terminators: a terminator
\* at the end of the text begins no further line.
PhysicalLines(txt) ==
  LET n == IF txt = <<>> \/ txt[Len(txt)] = NL
           THEN lineCount(txt) - 1 ELSE lineCount(txt)
  IN  [k \in 1..n |-> SubSeq(txt, LineStart(txt, k - 1) + 1,
                              LineStart(txt, k - 1) + LineLength(txt, k - 1))]

----------------------------------------------------------------------------
(* The quick fixes on their own: a.cc holds one of a few texts, a run has  *)
(* published its findings for it, and the editor asks for the code actions *)
(* of up to MaxDiagnostics diagnostics of a.cc.                            *)

TextInclude ==
  <<"#", "i", "n", "c", "l", "u", "d", "e", " ", "<", "a", ">", NL, NL, "x">>
TextGuard ==
  <<"/", "*", "c", "*", "/", NL,
    "#", "i", "f", "n", "d", "e", "f", " ", "H", NL,
    "#", "d", "e", "f", "i", "n", "e", " ", "H", " ", "/", "/", "g", NL,
    "x">>
TextBanner ==
  <<"/", "*", "*", "*", "/", NL,
    "#", "i", "n", "c", "l", "u", "d", "e", " ", "<", "a", ">", NL,
    "x">>
FixTexts == {TextEmpty, TextA, TextInclude, TextGuard, TextBanner}

\* A text with its comments /* ... */ (up to the first */) made blank, from
\* index i on; mode is "code", "block" (in a comment) or "line" (in a //
\* comment, which is kept).
RECURSIVE BlankComments(_, _, _)
BlankComments(txt, i, mode) ==
  IF i > Len(txt) THEN <<>>
  ELSE IF mode = "code" /\ StartsWith(txt, i, <<"/", "*">>)
  THEN <<" ", " ">> \o BlankComments(txt, i + 2, "block")
  ELSE IF mode = "block" /\ StartsWith(txt, i, <<"*", "/">>)
  THEN <<" ", " ">> \o BlankComments(txt, i + 2, "code")
  ELSE IF mode = "block"
  THEN <<IF txt[i] = NL THEN NL ELSE " ">> \o BlankComments(txt, i + 1, "block")
  ELSE IF mode = "code" /\ StartsWith(txt, i, <<"/", "/">>)
  THEN <<txt[i]>> \o BlankComments(txt, i + 1, "line")
  ELSE <<txt[i]>> \o BlankComments(txt, i + 1,
                                   IF txt[i] = NL THEN "code" ELSE mode)

FixReports ==
  { << AddLine(<<"a.cc">>, 1, 1, "x1", "<vector>"),
       HeaderLine(<<"a.cc">>), RemoveLine("<a>", 1, 1, 1) >>,
    << AddLine(<<"a.cc">>, 2, 1, "c", "\"bar.h\""),
       HeaderLine(<<"a.cc">>), RemoveLine("\"bar.h\"", 2, 2, 3) >> }

\* Diagnostics of a.cc that other extensions have published: the source
\* and the code are theirs to set.
ForeignDiagnostics ==
  { Diagnostic(Range(0, 0, 0, 1), <<"Missing header">>, "add"),
    Diagnostic(Range(0, 0, 0, 1), <<"Header is unused">>, "remove"),
    Diagnostic(Range(0, 0, 0, 1), <<"Unused #include ", "<z>", ".">>, "sort"),
    [Diagnostic(Range(0, 0, 0, 1), <<"Missing header">>, "add")
       EXCEPT !.source = "clang"] }

\* The published diagnostics of a uri; none is the empty list.
Entry(coll, uri) == IF uri \in DOMAIN coll THEN coll[uri] ELSE <<>>

\* What a run publishes for a.cc from a report, for a text.
Published(txt, report) ==
  Publish(NoDiagnostics,
          ParseReport(getWorkspaceFolder(DocA), txt, report).diagnostics)

\* The contexts of a call: lists of diagnostics the engine can have
\* published for a.cc and of diagnostics of other extensions.
Contexts ==
  LET engine ==
        UNION { {Entry(Published(txt, r), DocA)[k] :
                   k \in 1..Len(Entry(Published(txt, r), DocA))} :
                txt \in FixTexts, r \in FixReports }
  IN  SeqsUpTo(engine \cup ForeignDiagnostics, MaxDiagnostics)

InitFix ==
  /\ \E txt \in FixTexts, r \in FixReports :
       /\ text = [d \in Documents |-> IF d = DocA THEN txt ELSE TextEmpty]
       /\ _lastRevision = [d \in Documents |-> IF d = DocA THEN txt ELSE TextEmpty]
       /\ seen = [d \in Documents |-> IF d = DocA THEN txt ELSE NoText]
       /\ collection = Published(txt, r)
  /\ _analyzers = {DocA}
  /\ _timeout = [d \in Documents |-> 0]
  /\ timers = {}
  /\ abandoned = [d \in Documents |-> FALSE]
  /\ running = <<>>
  /\ _spinCount = 0
  /\ statusText = StatusIdle
  /\ _diagnostics = 1
  /\ created = 1
  /\ active = TRUE
  /\ codeActions = NoCall
  /\ overtaken = <<>>
  /\ solo = [d \in Documents |-> "none"]
  /\ base = [d \in Documents |-> NoText]
  /\ superseded = [d \in Documents |-> FALSE]
  /\ burstDiff = [d \in Documents |-> FALSE]
  /\ last = NoEvent

\* The editor asks for the code actions of a document: the diagnostics of
\* the context are diagnostics of that document.
ProvideCodeActions(document, diagnostics) ==
  /\ active
  /\ \A k \in 1..Len(diagnostics) :
       \/ diagnostics[k] \in ForeignDiagnostics
       \/ \E j \in 1..Len(Entry(collection, document)) :
            Entry(collection, document)[j] = diagnostics[k]
  /\ codeActions' = provideCodeActions(document, text[document], diagnostics)
  /\ last' = [NoEvent EXCEPT !.op = "codeActions", !.doc = document]
  /\ UNCHANGED <<text, progVars, _diagnostics, created, active, overtaken,
                 seen, solo, base, superseded, burstDiff>>

NextFix == \E diagnostics \in Contexts : ProvideCodeActions(DocA, diagnostics)

SpecFix == InitFix /\ [][NextFix]_vars

----------------------------------------------------------------------------
(* The properties.                                                         *)

\* What the run that resolved last parsed from its report.
LastParsed ==
  ParseReport(getWorkspaceFolder(last.doc), text[last.doc], last.report)

\* C1 (as stated): when the Command Runner fails during a run of a
\* document whose text differed from the fingerprint when the run was
\* requested, and nothing else touched the document meanwhile, the
\* fingerprint has the value it had before the run, which is not the
\* document's text, so the next run(false) is not skipped.
C1_FingerprintKeptOnFailure ==
  (last.op = "reject" /\ last.solo = "changed")
    => _lastRevision[last.doc] # text[last.doc]

\* C2: a step of onDidChangeVisibleTextEditors (run(false) for each
\* editor) whose documents all have the text seen by the previous call
\* that proceeded starts no run and changes nothing of the program state.
C2_UnchangedTextIsSkipped ==
  [][(/\ last'.op = "visible"
      /\ \A i \in 1..Len(last'.docs) : seen[last'.docs[i]] = text[last'.docs[i]])
       => UNCHANGED <<progVars, text>>]_vars

C2_Witness ==
  /\ last.op = "visible"
  /\ Len(last.docs) = 2
  /\ \A i \in 1..Len(last.docs) : seen[last.docs[i]] = text[last.docs[i]]
  /\ text[DocA] = TextA
  /\ last.started = 0
  /\ RunsOf(running, DocA) # {}

\* C3 (as stated): after every runIn of a burst exactly one invocation is
\* pending for the document (one armed timer), and the fingerprint is the
\* text at that call.
C3_ExactlyOneInvocation ==
  last.op = "save"
    => /\ Cardinality(TimersOf(timers, last.doc)) = 1
       /\ _lastRevision[last.doc] = text[last.doc]

\* C3 (amended): the runIn calls made since the last firing leave one
\* armed timer for the document if one of them found the text different
\* from the fingerprint and none otherwise; a runIn starts no run itself
\* and leaves the fingerprint at the text of that call; a firing timer
\* starts exactly one run.
C3_AtMostOneInvocation ==
  /\ \A d \in Documents :
       Cardinality(TimersOf(timers, d)) = IF burstDiff[d] THEN 1 ELSE 0
  /\ last.op = "save"
       => last.started = 0 /\ _lastRevision[last.doc] = text[last.doc]
  /\ last.op = "fire" => last.started = 1

C3_Witness ==
  /\ last.op = "save"
  /\ last.pending # 0
  /\ PendingHandle(last.doc) # last.pending
  /\ Cardinality(TimersOf(timers, last.doc)) = 1
  /\ burstDiff[last.doc]

\* C4 (as stated): when a timer fires for a document that was analyzed
\* with content A, then changed and saved, then reverted to A and saved
\* again, no invocation is started.
C4_RevertStartsNothing ==
  (last.op = "fire" /\ last.revert) => last.started = 0

\* C5 (as stated): a firing timer starts an invocation only if no
\* immediate run was requested while it was pending and the document's
\* text at firing time differs from the fingerprint.
C5_TimerSuperseded ==
  (last.op = "fire" /\ last.started > 0)
    => /\ ~last.superseded
       /\ text[last.doc] # _lastRevision[last.doc]

\* C6 (as stated): a document has at most one armed timer, and after
\* every runIn the document's armed timer is a new one, of the requested
\* duration, in place of the one that was pending before the call.
C6_EveryCallReplacesTimer ==
  /\ \A d \in Documents : Cardinality(TimersOf(timers, d)) <= 1
  /\ last.op = "save"
       => \E t \in TimersOf(timers, last.doc) :
            t.handle # last.pending /\ t.seconds = DebounceSeconds

\* C7: the command iwyu.analyzeFile with an active document starts exactly
\* one invocation, for that document, whatever the fingerprint, the runs
\* in flight and the timers are.
C7_AnalyzeFileAlwaysRuns ==
  (last.op = "analyzeFile" /\ last.doc # NoDocument)
    => /\ last.started = 1
       /\ running[Len(running)].doc = last.doc
       /\ _lastRevision[last.doc] = text[last.doc]

C7_Witness ==
  /\ last.op = "analyzeFile"
  /\ last.doc = DocA
  /\ seen[DocA] = text[DocA]
  /\ Cardinality(RunsOf(running, DocA)) = 2
  /\ TimersOf(timers, DocA) # {}
  /\ last.started = 1

\* C8 (as stated): a run that completes never publishes for a uri for
\* which a run started after it has already published.
C8_NoStaleOverwrite ==
  last.op = "resolve" => ~last.stale

\* C8 (amended): the last writer wins.  When a run completes and its parse
\* did not throw, every uri of its report has exactly the diagnostics of
\* that run (no entry if it has none), whether or not a run started later
\* has published for that uri before.
C8_LastWriterWins ==
  (last.op = "resolve" /\ ~last.threw)
    => \A u \in DOMAIN LastParsed.diagnostics :
         /\ Entry(collection, u) = LastParsed.diagnostics[u]
         /\ u \in DOMAIN collection <=> Len(LastParsed.diagnostics[u]) > 0

C8_Witness ==
  /\ last.op = "resolve"
  /\ ~last.threw
  /\ last.stale
  /\ \E u \in DOMAIN LastParsed.diagnostics : Len(LastParsed.diagnostics[u]) > 0

\* C9 (as stated): a document has at most one pipeline run in flight.
C9_OneRunInFlight ==
  \A d \in Documents : Cardinality(RunsOf(running, d)) <= 1

\* C9 (amended): a triggering event starts at most one run of a document
\* and waits for no run in flight, so runs of one document overlap; each
\* run holds the spinner from its start to its end, and the published
\* diagnostics change only in the step that completes a run.
C9_RunsOverlapButStepwise ==
  [][/\ \A d \in Documents :
          Cardinality(RunsOf(running', d)) <= Cardinality(RunsOf(running, d)) + 1
     /\ _spinCount' = Len(running')
     /\ (statusText' = StatusIdle) <=> (running' = <<>>)
     /\ collection' # collection
          => last'.op = "resolve" /\ Len(running') = Len(running) - 1]_vars

C9_Witness ==
  /\ Cardinality(RunsOf(running, DocA)) = 2
  /\ last.started = 1
  /\ _spinCount = 2

\* C10: a step changes the published diagnostics of a uri only if it
\* completes a run whose report names that uri (in a CorrectMarker, an
\* add-finding or the header of a removal block); the entry of the
\* document that triggered the run is no exception.
C10_UnnamedFilesUntouched ==
  [][\A f \in Files \cup DOMAIN collection \cup DOMAIN collection' :
       \/ Entry(collection', f) = Entry(collection, f)
          /\ (f \in DOMAIN collection' <=> f \in DOMAIN collection)
       \/ /\ last'.op = "resolve"
          /\ f \in FilesNamed(getWorkspaceFolder(last'.doc), last'.report)]_vars

C10_Witness ==
  /\ last.op = "resolve"
  /\ last.doc = DocA
  /\ last.report = ReportRemoveB
  /\ DocA \in DOMAIN collection
  /\ DocB \in DOMAIN collection

\* The report has a removal block header for the uri, no line of the
\* removal-entry grammar at all, and no CorrectMarker or add-finding.
HeaderAlone(root, lines, uri) ==
  /\ \E j \in 1..Len(lines) :
       lines[j].kind = "header" /\ joinPath(root, lines[j].path) = uri
  /\ \A j \in 1..Len(lines) : lines[j].kind \notin {"correct", "add", "remove"}

NoBlock == <<>>

RECURSIVE Findings(_, _, _, _)
Findings(root, lines, i, block) ==
  IF i > Len(lines) THEN <<>>
  ELSE
    LET kind == lines[i].kind
        rest(b) == Findings(root, lines, i + 1, b)
    IN  IF block # NoBlock
        THEN IF kind = "blank" THEN rest(NoBlock)
             ELSE IF kind = "remove"
             THEN << [kind |-> "remove", uri |-> block] >> \o rest(block)
             ELSE rest(block)
        ELSE IF kind \in {"correct", "add"}
        THEN << [kind |-> kind, uri |-> joinPath(root, lines[i].path)] >> \o rest(NoBlock)
        ELSE IF kind = "header" THEN rest(joinPath(root, lines[i].path))
        ELSE rest(NoBlock)

\* The kinds of the add and remove findings for the uri after its last
\* CorrectMarker (all of them if it has none), in report order.
RECURSIVE AfterLastMarker(_, _)
AfterLastMarker(findings, uri) ==
  IF findings = <<>> THEN <<>>
  ELSE LET f == findings[Len(findings)]
           before == AfterLastMarker(SubSeq(findings, 1, Len(findings) - 1), uri)
       IN  IF f.uri # uri THEN before
           ELSE IF f.kind = "correct" THEN <<>>
           ELSE Append(before, f.kind)

HasMarker(findings, uri) ==
  \E j \in 1..Len(findings) : findings[j].kind = "correct" /\ findings[j].uri = uri

LastFindings == Findings(getWorkspaceFolder(last.doc), last.report, 1, NoBlock)

\* The kinds (diagnostic.code) of a published list, in order.
Codes(list) == [j \in 1..Len(list) |-> list[j].code]

\* C12 (as stated): after a run whose report has a CorrectMarker for a
\* file, the list published for the file is the add and remove findings
\* for it that come after its last CorrectMarker, in report order, and the
\* file has no published diagnostics if there are none.
C12_PublishedAfterLastMarker ==
  \A f \in Files :
    (last.op = "resolve" /\ HasMarker(LastFindings, f))
      => /\ Codes(Entry(collection, f)) = AfterLastMarker(LastFindings, f)
         /\ f \in DOMAIN collection <=> AfterLastMarker(LastFindings, f) # <<>>

\* C12, for the reports whose parse raises no exception: the same.
C12_Parsed ==
  \A f \in Files :
    (last.op = "resolve" /\ HasMarker(LastFindings, f) /\ ~last.threw)
      => /\ Codes(Entry(collection, f)) = AfterLastMarker(LastFindings, f)
         /\ f \in DOMAIN collection <=> AfterLastMarker(LastFindings, f) # <<>>

\* C13 (as stated): the collection never holds an empty list, and after a
\* run every file the report names has exactly the list of that run (the
\* findings for it after its last CorrectMarker, if any): no entry if the
\* list is empty, nothing left over from earlier runs.
C13_StoreHoldsRunLists ==
  /\ \A u \in DOMAIN collection : collection[u] # <<>>
  /\ last.op = "resolve"
       => \A f \in FilesNamed(getWorkspaceFolder(last.doc), last.report) :
            /\ Codes(Entry(collection, f)) = AfterLastMarker(LastFindings, f)
            /\ f \in DOMAIN collection <=> AfterLastMarker(LastFindings, f) # <<>>

\* C13, for the reports whose parse raises no exception: the same.
C13_Parsed ==
  /\ \A u \in DOMAIN collection : collection[u] # <<>>
  /\ (last.op = "resolve" /\ ~last.threw)
       => \A f \in FilesNamed(getWorkspaceFolder(last.doc), last.report) :
            /\ Codes(Entry(collection, f)) = AfterLastMarker(LastFindings, f)
            /\ f \in DOMAIN collection <=> AfterLastMarker(LastFindings, f) # <<>>

\* C19 (as stated): the parse of a report raises no exception, and every
\* diagnostic it publishes has a position with non-negative line and
\* character.
C19_ParserNeverRaises ==
  /\ last.op = "resolve" => ~last.threw
  /\ \A u \in DOMAIN collection :
       \A j \in 1..Len(collection[u]) :
         /\ ValidPosition(collection[u][j].range.start)
         /\ ValidPosition(collection[u][j].range.end)

\* C14: the step in which the Command Runner fails ends that run and
\* nothing else: the published diagnostics of every file and the surface
\* are as before, no run is started in its place, and the timers and the
\* fingerprints are untouched.
C14_FailureTouchesNothing ==
  [][last'.op = "reject"
       => /\ collection' = collection
          /\ _diagnostics' = _diagnostics
          /\ Len(running') = Len(running) - 1
          /\ \A d \in Documents :
               Cardinality(RunsOf(running', d)) <= Cardinality(RunsOf(running, d))
          /\ _spinCount' = _spinCount - 1
          /\ UNCHANGED <<timers, _timeout, _lastRevision, _analyzers>>]_vars

C14_Witness ==
  /\ last.op = "reject"
  /\ DocA \in DOMAIN collection
  /\ running = <<>>
  /\ timers = {}

\* C15 (as stated): after a deactivation and the next activation the
\* surface is empty and no analyzer of before is registered, and the first
\* run(false) calls after it (a visible-editors event) start an invocation.
C15_FreshAfterReactivation ==
  /\ last.op = "activate" => collection = NoDiagnostics /\ _analyzers = {}
  /\ (last.op = "visible" /\ last.reinit /\ last.docs # <<>>) => last.started > 0

\* C16: initialize creates a collection only when there is none, so any
\* number of calls in a row create one and the calls after the first change
\* nothing; dispose leaves no collection and no entries, and changes
\* nothing when there is none already.
C16_InitializeIdempotent ==
  /\ initialize(Surface)._diagnostics # 0
  /\ initialize(initialize(Surface)) = initialize(Surface)
  /\ _diagnostics # 0 => initialize(Surface) = Surface
  /\ _diagnostics = 0 => initialize(Surface).created = created + 1
  /\ dispose(Surface)._diagnostics = 0
  /\ dispose(Surface).collection = NoDiagnostics
  /\ dispose(dispose(Surface)) = dispose(Surface)
  /\ _diagnostics = 0 => dispose(Surface) = Surface
  /\ _diagnostics \in {0, created}
  /\ last.op = "activate" => _diagnostics # 0
  /\ last.op = "deactivate" => _diagnostics = 0 /\ collection = NoDiagnostics

C16_Witness ==
  /\ last.op = "activate"
  /\ created = 2
  /\ _diagnostics = 2
  /\ collection # NoDiagnostics

\* C17: getFor gives the analyzer registered for the uri as it is, with
\* its fingerprint and its timer; it constructs one only when the uri has
\* none, a second call finds that one, and the analyzers of the other uris
\* are neither created nor changed.
C17_OneAnalyzerPerUri ==
  \A d \in Documents :
    LET g == getFor(Sched, d)
    IN  /\ d \in _analyzers => g.s = Sched /\ ~g.threw
        /\ (d \notin _analyzers /\ ~g.threw)
             => /\ g.s._analyzers = _analyzers \cup {d}
                /\ g.s._lastRevision[d] = TextEmpty
                /\ g.s._timeout[d] = 0
        /\ getFor(g.s, d).s = g.s
        /\ \A e \in Documents \ {d} :
             /\ e \in g.s._analyzers <=> e \in _analyzers
             /\ g.s._lastRevision[e] = _lastRevision[e]
             /\ g.s._timeout[e] = _timeout[e]
        /\ g.s.timers = timers /\ g.s.running = running

C17_Witness ==
  /\ _analyzers = {DocA, DocB}
  /\ _lastRevision[DocA] # _lastRevision[DocB]
  /\ TimersOf(timers, DocA) # {}
  /\ TimersOf(timers, DocB) = {}
  /\ last.op = "analyzeFile" /\ last.doc = DocB

\* C18: for a document in no workspace folder getFor raises and registers
\* nothing, in every state, so every request fails the same way; such a
\* document has no analyzer, no run and no timer, and a handler called
\* for it starts nothing.
C18_NoWorkspaceNoAnalyzer ==
  \A d \in Documents :
    getWorkspaceFolder(d) = NoFolder
      => /\ getFor(Sched, d).threw
         /\ getFor(Sched, d).s = Sched
         /\ d \notin _analyzers
         /\ RunsOf(running, d) = {}
         /\ TimersOf(timers, d) = {}
         /\ d \notin DOMAIN collection
         /\ (last.op \in {"analyzeFile", "save"} /\ last.doc = d) => last.started = 0

C18_Witness ==
  /\ last.op = "analyzeFile"
  /\ last.doc = DocOut
  /\ _analyzers = {DocA}
  /\ last.started = 0

\* C20: a call of provideCodeActions does not fail, whatever the messages
\* of its diagnostics of code 'add' or 'remove' are, and a fix for a
\* diagnostic whose message is not in the expected format carries the
\* generic label of its kind.
C20_FixNeverFails ==
  last.op = "codeActions" =>
    /\ ~codeActions.threw
    /\ \A k \in 1..Len(codeActions.actions) :
         LET action == codeActions.actions[k]
             diagnostic == action.diagnostics[1]
         IN  /\ (diagnostic.code = "remove"
                 /\ MatchRemoval(diagnostic.message) = NoMatchGroups)
                => action.title = <<"Remove header">>
             /\ (diagnostic.code = "add"
                 /\ MatchAddition(diagnostic.message) = NoMatchGroups)
                => action.title = <<"Include header">>

\* The removal fix alone never fails: with no diagnostic of code 'add' in
\* the context, the call returns, and a message out of format gets the
\* generic label.
C20_RemovalNeverFails ==
  (/\ last.op = "codeActions"
   /\ \A k \in 1..Len(codeActions.context) :
        codeActions.context[k].code # "add")
  => /\ ~codeActions.threw
     /\ \A k \in 1..Len(codeActions.actions) :
          MatchRemoval(codeActions.actions[k].diagnostics[1].message) = NoMatchGroups
          => codeActions.actions[k].title = <<"Remove header">>

\* C21 (as stated): for every remove diagnostic the engine has published,
\* the remove fix deletes the range from column 0 of the anchor line to
\* column 0 of the next line, and applying it removes exactly one physical
\* line of the document, the anchor line, and changes no other line.
C21_RemoveDeletesOneLine ==
  last.op = "codeActions" =>
    \A k \in 1..Len(codeActions.actions) :
      LET action == codeActions.actions[k]
          diagnostic == action.diagnostics[1]
          l == diagnostic.range.start.line
          before == PhysicalLines(text[DocA])
          after == PhysicalLines(ApplyEdit(text[DocA], action.edit))
      IN  (/\ diagnostic.code = "remove"
           /\ \E j \in 1..Len(Entry(collection, DocA)) :
                Entry(collection, DocA)[j] = diagnostic)
          => /\ action.edit.kind = "delete"
             /\ action.edit.range = Range(l, 0, l + 1, 0)
             /\ Len(after) = Len(before) - 1
             /\ \A i \in 1..Len(after) :
                  after[i] = IF i <= l THEN before[i] ELSE before[i + 1]

\* C21 (amended): the same, for a diagnostic whose anchor line is a
\* physical line of the document; when the document has no such line the
\* fix deletes nothing.
C21_RemoveDeletesAnchorLine ==
  last.op = "codeActions" =>
    \A k \in 1..Len(codeActions.actions) :
      LET action == codeActions.actions[k]
          diagnostic == action.diagnostics[1]
          l == diagnostic.range.start.line
          before == PhysicalLines(text[DocA])
          after == PhysicalLines(ApplyEdit(text[DocA], action.edit))
      IN  (/\ diagnostic.code = "remove"
           /\ \E j \in 1..Len(Entry(collection, DocA)) :
                Entry(collection, DocA)[j] = diagnostic)
          => /\ action.edit.kind = "delete"
             /\ action.edit.range = Range(l, 0, l + 1, 0)
             /\ l < Len(before)
                  => /\ Len(after) = Len(before) - 1
                     /\ \A i \in 1..Len(after) :
                          after[i] = IF i <= l THEN before[i] ELSE before[i + 1]
             /\ l >= Len(before)
                  => ApplyEdit(text[DocA], action.edit) = text[DocA]

\* A fix for a removal entry of lines 2-3 is returned for a document whose
\* second line is its last, and for one where more lines follow.
C21_Witness ==
  /\ last.op = "codeActions"
  /\ text[DocA] \in {TextA, TextGuard}
  /\ \E k \in 1..Len(codeActions.actions) :
       /\ codeActions.actions[k].diagnostics[1].code = "remove"
       /\ codeActions.actions[k].diagnostics[1].range.start.line = 1
       /\ codeActions.actions[k].diagnostics[1].range.end.character > 0
       /\ Len(PhysicalLines(ApplyEdit(text[DocA], codeActions.actions[k].edit)))
            = Len(PhysicalLines(text[DocA])) - 1

\* C22 (as stated): every add fix is one insertion of '#include <spec>'
\* and a blank line, placed right after the longest prefix of the document
\* made of whole prologue lines (whitespace, comments, include guard lines
\* and #include directives); on an empty document that is offset 0.
C22_InsertAfterPrologue ==
  last.op = "codeActions" =>
    \A k \in 1..Len(codeActions.actions) :
      LET action == codeActions.actions[k]
          diagnostic == action.diagnostics[1]
          txt == text[DocA]
          prologue == PROLOGUE_PATTERN(BlankComments(txt, 1, "code"))
      IN  diagnostic.code = "add"
          => /\ action.edit.kind = "insert"
             /\ action.edit.newText
                  = <<"#include ", MatchAddition(diagnostic.message)[1], NL, NL>>
             /\ action.edit.position = positionAt(txt, prologue)
             /\ txt = TextEmpty => action.edit.position = Position(0, 0)

\* The add fix in documents whose comments the pattern takes as comments:
\* there the insertion is right after the prologue.
C22_InsertAfterMatchedComments ==
  (last.op = "codeActions" /\ text[DocA] # TextBanner)
  => \A k \in 1..Len(codeActions.actions) :
       LET action == codeActions.actions[k]
           txt == text[DocA]
       IN  action.diagnostics[1].code = "add"
           => action.edit.position
                = positionAt(txt, PROLOGUE_PATTERN(BlankComments(txt, 1, "code")))

\* C23: a step of the command, the save handler, a timer or the end of a
\* run of one document leaves the run state of every other document as it
\* is (its analyzer, fingerprint, timeout slot, armed timers and runs in
\* flight), and a step changes the published diagnostics of a file only
\* when it completes a run whose report names that file.
C23_OtherDocumentsUntouched ==
  [][/\ last'.op \in {"analyzeFile", "save", "fire", "resolve", "reject"}
          => \A e \in Documents \ {last'.doc} :
               /\ e \in _analyzers' <=> e \in _analyzers
               /\ _lastRevision'[e] = _lastRevision[e]
               /\ _timeout'[e] = _timeout[e]
               /\ TimersOf(timers', e) = TimersOf(timers, e)
               /\ Cardinality(RunsOf(running', e)) = Cardinality(RunsOf(running, e))
     /\ \A f \in Files :
          Entry(collection', f) # Entry(collection, f)
            => /\ last'.op = "resolve"
               /\ f \in FilesNamed(getWorkspaceFolder(last'.doc), last'.report)
               /\ \A g \in Files \ FilesNamed(getWorkspaceFolder(last'.doc),
                                                last'.report) :
                    Entry(collection', g) = Entry(collection, g)]_vars

\* b.h is saved and its timer armed while a.cc has an armed timer and a
\* run in flight, and both files have diagnostics.
C23_Witness ==
  /\ last.op = "save" /\ last.doc = DocB
  /\ TimersOf(timers, DocB) # {}
  /\ TimersOf(timers, DocA) # {}
  /\ RunsOf(running, DocA) # {}
  /\ Entry(collection, DocA) # <<>>
  /\ Entry(collection, DocB) # <<>>

C25_TwoStateScan ==
  (/\ last.op = "resolve" /\ ~last.threw
   /\ \E j \in 1..Len(last.report) : last.report[j].kind = "header")
    => \A f \in FilesNamed(getWorkspaceFolder(last.doc), last.report) :
         Codes(Entry(collection, f)) = AfterLastMarker(LastFindings, f)

\* An add-finding line stands in the block, before a removal entry, and
\* only the removal entry is published.
C25_Witness ==
  /\ last.op = "resolve" /\ ~last.threw
  /\ Len(last.report) = 3
  /\ last.report[1].kind = "header"
  /\ last.report[2].kind = "add" /\ last.report[2].row > 0
  /\ last.report[3].kind = "remove"
  /\ Codes(Entry(collection, DocA)) = <<"remove">>

\* C26 (as stated): after a run, the list published for every file the
\* report names is the add and remove findings of the report for that
\* file (after its last CorrectMarker), in the order of their lines,
\* whatever findings of other files stand between them.
C26_OneListInReportOrder ==
  last.op = "resolve"
    => \A f \in FilesNamed(getWorkspaceFolder(last.doc), last.report) :
         LET list == Entry(collection, f)
         IN  /\ Codes(list) = AfterLastMarker(LastFindings, f)
             /\ \A j \in 1..Len(list) :
                  \E k \in 1..Len(Entry(LastParsed.diagnostics, f)) :
                    Entry(LastParsed.diagnostics, f)[k] = list[j]

\* C26, for the reports whose parse raises no exception: the same.
C26_Parsed ==
  (last.op = "resolve" /\ ~last.threw)
    => \A f \in FilesNamed(getWorkspaceFolder(last.doc), last.report) :
         LET list == Entry(collection, f)
         IN  /\ Codes(list) = AfterLastMarker(LastFindings, f)
             /\ list = Entry(LastParsed.diagnostics, f)

\* C27: report positions are 1-based and are converted to 0-based.  After
\* a run whose report has only positions from 1 on (its parse raises no
\* exception), every published add diagnostic of a file comes from an
\* add-finding line for that file and starts at (line - 1, col - 1), with
\* the symbol and the include specifier of the line as they are, and
\* every published remove diagnostic comes from a removal entry and lies
\* on line start - 1 from column 0, whatever the end line of the entry is.
C27_ZeroBasedPositions ==
  (last.op = "resolve" /\ ~last.threw)
    => \A f \in DOMAIN LastParsed.diagnostics :
         \A j \in 1..Len(Entry(collection, f)) :
           LET d == Entry(collection, f)[j]
           IN  \E k \in 1..Len(last.report) :
                 LET line == last.report[k]
                 IN  \/ /\ d.code = "add" /\ line.kind = "add"
                        /\ joinPath(getWorkspaceFolder(last.doc), line.path) = f
                        /\ d.range.start = Position(line.row - 1, line.column - 1)
                        /\ d.range.end.line = line.row - 1
                        /\ d.message[1] = line.symbol
                        /\ d.message[3] = line.include
                     \/ /\ d.code = "remove" /\ line.kind = "remove"
                        /\ d.range.start = Position(line.row - 1, 0)
                        /\ d.range.end.line = line.row - 1
                        /\ d.message[2] = line.include

\* The add-finding 'a.cc:1:1: ... <vector> ...' and the removal entry
\* '- #include "bar.h"  // lines 3-4' are published at (0, 0) and on line 2.
C27_Witness ==
  /\ last.op = "resolve" /\ ~last.threw
  /\ Len(Entry(collection, DocA)) = 2
  /\ Entry(collection, DocA)[1].code = "add"
  /\ Entry(collection, DocA)[1].range.start = Position(0, 0)
  /\ Entry(collection, DocA)[1].message[3] = "<vector>"
  /\ Entry(collection, DocA)[2].code = "remove"
  /\ Entry(collection, DocA)[2].range.start = Position(2, 0)
  /\ Entry(collection, DocA)[2].message[2] = "\"bar.h\""
  /\ last.report[3].endRow = 4

\* The published remove diagnostics of the last run, each with a removal
\* entry of the report it can come from.
RemovePairs ==
  {<<d, line>> \in
     (UNION {{Entry(collection, f)[j] : j \in 1..Len(Entry(collection, f))} :
               f \in DOMAIN LastParsed.diagnostics})
     \X {last.report[k] : k \in 1..Len(last.report)} :
     /\ d.code = "remove" /\ line.kind = "remove"
     /\ d.message[2] = line.include
     /\ d.range.start.line = line.row - 1}

\* C28 (as stated): every remove diagnostic has the range from column 0 of
\* its start line to column 0 of the next line.
C28_RemoveRangeIsWholeLine ==
  (last.op = "resolve" /\ ~last.threw)
    => \A p \in RemovePairs :
         p[1].range = Range(p[2].row - 1, 0, p[2].row, 0)

\* C28 (amended): every remove diagnostic has the range of the directive
\* text on its start line: from column 0 to the length of '#include', the
\* blanks after it and the include specifier, whatever the end line of the
\* entry is.
C28_RemoveRangeIsDirective ==
  (last.op = "resolve" /\ ~last.threw)
    => /\ \A p \in RemovePairs :
            p[1].range = Range(p[2].row - 1, 0, p[2].row - 1,
                               Len("#include") + p[2].spaces + Len(p[2].include))
       /\ \A f \in DOMAIN LastParsed.diagnostics :
            \A j \in 1..Len(Entry(collection, f)) :
              Entry(collection, f)[j].code = "remove"
                => \E p \in RemovePairs : p[1] = Entry(collection, f)[j]

C28_Witness ==
  /\ last.op = "resolve" /\ ~last.threw
  /\ \E p \in RemovePairs :
       /\ p[2].endRow > p[2].row
       /\ p[1].range = Range(2, 0, 2, 16)

\* C29 (as stated): the range of a published add diagnostic of a file
\* starts at the reported position and covers the one token that the text
\* of that file has at the position (the first grammar that matches, one
\* character if none does or the position is past the end), also when the
\* file is not the document of the run; the range is never empty.
C29_TokenOfReportedFile ==
  (last.op = "resolve" /\ ~last.threw)
    => \A f \in DOMAIN LastParsed.diagnostics \cap Documents :
         \A j \in 1..Len(Entry(collection, f)) :
           LET d == Entry(collection, f)[j]
           IN  d.code = "add"
               => /\ d.range = _getTokenRange(text[f], d.range.start)
                  /\ d.range.end.line = d.range.start.line
                  /\ d.range.end.character > d.range.start.character

\* The token is taken from the text of the document of the run, whichever
\* file the finding is for, and the range is never empty.
C29_TokenOfRunDocument ==
  (last.op = "resolve" /\ ~last.threw)
    => \A f \in DOMAIN LastParsed.diagnostics :
         \A j \in 1..Len(Entry(collection, f)) :
           LET d == Entry(collection, f)[j]
           IN  d.code = "add"
               => /\ d.range = _getTokenRange(text[last.doc], d.range.start)
                  /\ d.range.end.line = d.range.start.line
                  /\ d.range.end.character > d.range.start.character

\* C30 (as stated): the first run() or runIn() of a document whose
\* analyzer the call has just created leads to an invocation, whatever
\* the text of the document is: a run is started or a timer is armed.
C30_FirstRunAlwaysInvokes ==
  [][\A d \in Documents :
       (/\ d \notin _analyzers /\ d \in _analyzers'
        /\ last'.op \in {"visible", "save"})
         => \/ Cardinality(RunsOf(running', d)) > Cardinality(RunsOf(running, d))
            \/ TimersOf(timers', d) # {}]_vars

\* The first run() or runIn() of a document that is not empty.
C30_FirstRunOfNonEmptyText ==
  [][\A d \in Documents :
       (/\ d \notin _analyzers /\ d \in _analyzers'
        /\ last'.op \in {"visible", "save"}
        /\ text[d] # TextEmpty)
         => \/ Cardinality(RunsOf(running', d)) > Cardinality(RunsOf(running, d))
            \/ TimersOf(timers', d) # {}]_vars

\* C31 (as stated): every runIn call that waits for its debounce stops
\* waiting: its timer does not stay armed for ever and, if the timer was
\* cleared by a later runIn of the document, the call settles all the same;
\* and every run started ends.
C31_EveryRunInSettles ==
  /\ \A d \in Focus, h \in 1..MaxTimers :
       LET t == [handle |-> h, doc |-> d, seconds |-> DebounceSeconds]
       IN  (t \in timers) ~> (t \notin timers)
  /\ (running # <<>>) ~> (last.op \in {"resolve", "reject"})
  /\ \A d \in Focus : abandoned[d] ~> ~abandoned[d]

\* C31, the calls whose timer is not cleared: an armed timer fires or is
\* cleared, and a run in flight ends.
C31_ArmedCallsSettle ==
  /\ \A d \in Focus, h \in 1..MaxTimers :
       LET t == [handle |-> h, doc |-> d, seconds |-> DebounceSeconds]
       IN  (t \in timers) ~> (t \notin timers)
  /\ (running # <<>>) ~> (last.op \in {"resolve", "reject"})

\* C31, second half: a timer that starts a run when it fires is the one
\* the analyzer's _timeout names, that is the one of the latest runIn that
\* armed one; a save starts no run; a call whose timer was cleared stays
\* as it is, whatever happens.
C31_SupersededNeverInvokes ==
  [][/\ last'.op = "fire"
        => \E t \in timers \ timers' :
             /\ t.doc = last'.doc
             /\ t.handle = _timeout[t.doc]
             /\ TimersOf(timers, t.doc) = {t}
     /\ last'.op = "save" => running' = running
     /\ \A d \in Documents : abandoned[d] => abandoned'[d]]_vars

\* C32: the spinner count is the number of wrapped operations in flight
\* (the exec calls of _runInternal) and is never negative; the status shows
\* the spinning text exactly while the count is positive, so with no
\* operation left, however the operations ended and overlapped, the count
\* is 0 and the status is idle.
C32_SpinnerCountsOperations ==
  /\ _spinCount = Len(running)
  /\ _spinCount >= 0
  /\ statusText \in {StatusIdle, StatusSpinning}
  /\ statusText = StatusSpinning <=> _spinCount > 0
  /\ running = <<>> => _spinCount = 0 /\ statusText = StatusIdle

\* Of two overlapping operations one has ended by an exception of the
\* parse: the count is 1 and the status still spins.
C32_Witness ==
  /\ last.op = "resolve"
  /\ last.threw
  /\ Len(running) = 1
  /\ _spinCount = 1
  /\ statusText = StatusSpinning

\* C33: a run that publishes finds a surface or creates one: after its
\* publish loop Analyzer._diagnostics is a collection, the newest one, a new
\* one exactly if there was none, and that collection holds what the run
\* has set; without a surface there are no entries.
C33_PublishIntoLiveSurface ==
  [][/\ _diagnostics' = 0 => collection' = NoDiagnostics
     /\ (/\ last'.op = "resolve"
         /\ ~last'.threw
         /\ FilesNamed(getWorkspaceFolder(last'.doc), last'.report) # {})
        => /\ _diagnostics' # 0
           /\ _diagnostics' = created'
           /\ created' = IF _diagnostics = 0 THEN created + 1 ELSE created
           /\ last'.lazy = (_diagnostics = 0)
           /\ collection' =
                Publish(IF _diagnostics = 0 THEN NoDiagnostics ELSE collection,
                        ParseReport(getWorkspaceFolder(last'.doc),
                                    text[last'.doc], last'.report).diagnostics)]_vars

\* A run that outlived the deactivation has created the second collection
\* and published into it.
C33_Witness ==
  /\ last.op = "resolve"
  /\ last.lazy
  /\ ~active
  /\ _diagnostics = 2
  /\ created = 2
  /\ collection # NoDiagnostics

====
